---- MODULE Spec2Model ----
(***************************************************************************)
(* The SMPP v3.4 PDU codec of aiosmpplib (src/aiosmpplib/protocol.py).     *)
(*                                                                         *)
(* A Python str is a sequence of code points, a Python bytes object is a   *)
(* sequence of octets (0..255).  A call that may raise returns a record    *)
(* with an "err" field: "none" when it returns, otherwise the name of the  *)
(* exception.                                                              *)
(***************************************************************************)
EXTENDS Integers, Sequences, FiniteSets, TLC

VARIABLES
    args,   \* the arguments the caller hands to a message constructor
    msg,    \* the constructor's result: the message object, or the error
    wire,   \* result of msg.pdu(): the PDU octets, or the error
    dec,    \* result of MESSAGE_TYPE_MAP[command].from_pdu(wire, header, ...)
    tobj,   \* time codec: the datetime / timedelta / None to format
    tstr,   \* time codec: result of datetime_to_smpp_time(tobj)
    tres,   \* time codec: result of smpp_time_to_datetime(tstr.str)
    view,   \* result of msg.as_dict()
    rx,     \* receiving side: the 16 header octets read first, the header
            \* parsed from them, and the buffer handed to from_pdu
    tl,     \* receiving side: index, message_payload and optional_params of
            \* the optional-parameter loop of Sm.from_pdu
    again   \* the further calls of msg.pdu(): how many, and the last result

mvars == <<args, msg, wire, dec>>
tvars == <<tobj, tstr, tres>>
xvars == <<view, rx, tl, again>>
vars == <<args, msg, wire, dec, tobj, tstr, tres, view, rx, tl, again>>

(***************************************************************************)
(* Bounds of the model.                                                    *)
(***************************************************************************)
\* Largest number of days of a timedelta handed to the time codec.
MaxDays == 443

\* Largest number of further pdu() calls on one message.
MaxCalls == 2

(***************************************************************************)
(* Python primitives: str, int(), str.format, struct.pack.                 *)
(***************************************************************************)
Min(a, b) == IF a < b THEN a ELSE b
Max(a, b) == IF a > b THEN a ELSE b

\* s[a:b] of Python for 0 <= a: the slice is cut to the string, never an error.
Slice(s, a, b) == SubSeq(s, a + 1, Min(b, Len(s)))

\* c * n of Python: n copies of the one-character string c.
Rep(c, n) == [i \in 1..n |-> c] \o <<>>

IsDigit(c) == c >= 48 /\ c <= 57

RECURSIVE DigitsValue(_)
DigitsValue(s) ==
    IF s = <<>> THEN 0
    ELSE 10 * DigitsValue(SubSeq(s, 1, Len(s) - 1)) + (s[Len(s)] - 48)

\* int(s) of Python for a string without blanks: an optional sign and one or
\* more decimal digits, ValueError otherwise.
ParseInt(s) ==
    LET signed == s # <<>> /\ s[1] \in {43, 45}
        digits == IF signed THEN Tail(s) ELSE s
    IN  IF digits = <<>> \/ \E i \in 1..Len(digits) : ~IsDigit(digits[i])
        THEN [ok |-> FALSE, v |-> 0]
        ELSE [ok |-> TRUE,
              v |-> IF signed /\ s[1] = 45 THEN 0 - DigitsValue(digits)
                    ELSE DigitsValue(digits)]

\* The value of the two decimal digits at 0-based positions a, a+1 of s.
TwoDigits(s, a) == (s[a + 1] - 48) * 10 + (s[a + 2] - 48)

RECURSIVE Decimal(_)
\* str(n) of Python for n >= 0.
Decimal(n) == IF n < 10 THEN <<48 + n>> ELSE Decimal(n \div 10) \o <<48 + (n % 10)>>

\* '{:02d}'.format(n): at least two characters, more when n needs them.
Format02d(n) ==
    IF n < 0 THEN <<45>> \o Decimal(0 - n)
    ELSE IF n < 10 THEN <<48, 48 + n>>
    ELSE Decimal(n)

(***************************************************************************)
(* datetime and timedelta of the Python standard library.                  *)
(***************************************************************************)
TimeNone == [kind |-> "none"]

\* timedelta(days, seconds, microseconds): the normalised representation
\* with 0 <= seconds < 86400 and 0 <= microseconds < 1000000.
timedelta(d, s, us) ==
    LET s1 == s + (us \div 1000000)
    IN  [kind |-> "timedelta",
         days |-> d + (s1 \div 86400),
         seconds |-> s1 % 86400,
         microseconds |-> us % 1000000]

\* a > b on timedelta.
TdGreater(a, b) ==
    \/ a.days > b.days
    \/ a.days = b.days /\ a.seconds > b.seconds
    \/ a.days = b.days /\ a.seconds = b.seconds /\ a.microseconds > b.microseconds

IsLeap(y) == (y % 4 = 0 /\ y % 100 # 0) \/ y % 400 = 0

DaysInMonth(y, m) ==
    IF m = 2 THEN (IF IsLeap(y) THEN 29 ELSE 28)
    ELSE IF m \in {4, 6, 9, 11} THEN 30 ELSE 31

\* datetime(year, month, day, hour, minute, second, microsecond, tzinfo):
\* ValueError when a field is out of range.
datetime(y, mo, d, h, mi, s, us, aware, off) ==
    IF /\ y >= 1 /\ y <= 9999
       /\ mo >= 1 /\ mo <= 12
       /\ d >= 1 /\ d <= DaysInMonth(y, mo)
       /\ h >= 0 /\ h <= 23
       /\ mi >= 0 /\ mi <= 59
       /\ s >= 0 /\ s <= 59
       /\ us >= 0 /\ us <= 999999
    THEN [err |-> "none",
          t |-> [kind |-> "datetime", year |-> y, month |-> mo, day |-> d,
                 hour |-> h, minute |-> mi, second |-> s, microsecond |-> us,
                 aware |-> aware, utcoffset |-> off]]
    ELSE [err |-> "ValueError", t |-> TimeNone]

\* time_object.strftime('%y%m%d%H%M%S')
strftime_ymdHMS(t) ==
    Format02d(t.year % 100) \o Format02d(t.month) \o Format02d(t.day)
    \o Format02d(t.hour) \o Format02d(t.minute) \o Format02d(t.second)

(***************************************************************************)
(* utils.FixedOffset.from_timezone: the tzinfo of a sign and two digits of *)
(* quarter-hours.                                                          *)
(***************************************************************************)
FixedOffset_from_timezone(offset_str) ==
    LET nn == ParseInt(Slice(offset_str, 1, 3))
    IN  IF Len(offset_str) < 3 \/ ~nn.ok \/ offset_str[1] \notin {43, 45}
        THEN [err |-> "ValueError", utcoffset |-> 0]
        ELSE [err |-> "none",
              utcoffset |-> IF offset_str[1] = 45 THEN 0 - nn.v * 900 ELSE nn.v * 900]

(***************************************************************************)
(* Sm.datetime_to_smpp_time                                                *)
(***************************************************************************)
\* timedelta(weeks=63), the longest relative validity.
MaxValidityWeeks == 63

\* The isinstance(time_object, datetime) branch: absolute validity.
absolute_validity(time_object) ==
    LET tenth_second == Decimal(time_object.microsecond \div 100000)
        \* tzinfo.utcoffset() if tzinfo else None; `not offset` is also
        \* true of a zero timedelta
        no_offset == ~time_object.aware \/ time_object.utcoffset = 0
        offset == timedelta(0, time_object.utcoffset, 0)
        offset_str == IF no_offset THEN <<48, 48>>
                      ELSE Format02d(offset.seconds \div (60 * 15))
        prefix == IF no_offset THEN <<43>>
                  ELSE IF offset.days < 0 THEN <<45>> ELSE <<43>>
    IN  [err |-> "none",
         str |-> strftime_ymdHMS(time_object) \o tenth_second \o offset_str \o prefix]

\* A slip in the decomposition: the months are counted over all the days,
\* the days of the whole years included.
relative_validity_months_of_total(time_object) ==
    IF TdGreater(time_object, timedelta(7 * MaxValidityWeeks, 0, 0))
    THEN [err |-> "ValueError", str |-> <<>>]
    ELSE
        LET total_days == time_object.days
            total_seconds == time_object.seconds
            rest_seconds == total_seconds % 3600
        IN  [err |-> "none",
             str |-> Format02d(total_days \div 365) \o Format02d(total_days \div 30)
                     \o Format02d((total_days % 365) % 30)
                     \o Format02d(total_seconds \div 3600)
                     \o Format02d(rest_seconds \div 60) \o Format02d(rest_seconds % 60)
                     \o <<48, 48, 48, 82>>]

\* The isinstance(time_object, timedelta) branch: relative validity.
relative_validity(time_object) ==
    IF TdGreater(time_object, timedelta(7 * MaxValidityWeeks, 0, 0))
    THEN [err |-> "ValueError", str |-> <<>>]
    ELSE
        LET total_days == time_object.days
            years == Format02d(total_days \div 365)
            rest_days == total_days % 365
            months == Format02d(rest_days \div 30)
            days == Format02d(rest_days % 30)
            total_seconds == time_object.seconds
            hours == Format02d(total_seconds \div 3600)
            rest_seconds == total_seconds % 3600
            minutes == Format02d(rest_seconds \div 60)
            seconds == Format02d(rest_seconds % 60)
        IN  [err |-> "none",
             str |-> years \o months \o days \o hours \o minutes \o seconds
                     \o <<48, 48, 48, 82>>]

datetime_to_smpp_time(time_object) ==
    IF time_object.kind = "none" THEN [err |-> "none", str |-> <<>>]
    ELSE IF time_object.kind = "datetime" THEN absolute_validity(time_object)
    ELSE relative_validity(time_object)

(***************************************************************************)
(* Sm.smpp_time_to_datetime                                                *)
(***************************************************************************)
smpp_time_to_datetime(validity) ==
    IF validity = <<>> THEN [err |-> "none", t |-> TimeNone]
    ELSE
        LET year == ParseInt(Slice(validity, 0, 2))
            month == ParseInt(Slice(validity, 2, 4))
            day == ParseInt(Slice(validity, 4, 6))
            hour == ParseInt(Slice(validity, 6, 8))
            minute == ParseInt(Slice(validity, 8, 10))
            second == ParseInt(Slice(validity, 10, 12))
        IN  IF ~(year.ok /\ month.ok /\ day.ok /\ hour.ok /\ minute.ok /\ second.ok)
            THEN [err |-> "ValueError", t |-> TimeNone]
            ELSE IF validity[Len(validity)] = 82 THEN
                \* Relative validity: year = 365 days, month = 30 days
                LET total_days == year.v * 365 + month.v * 30 + day.v
                    total_seconds == hour.v * 3600 + minute.v * 60 + second.v
                IN  [err |-> "none", t |-> timedelta(total_days, total_seconds, 0)]
            ELSE
                LET tenth_second == ParseInt(Slice(validity, 12, 13))
                    offset_str == Slice(validity, 15, 16) \o Slice(validity, 13, 15)
                    offset == FixedOffset_from_timezone(offset_str)
                IN  IF ~tenth_second.ok \/ offset.err # "none"
                    THEN [err |-> "ValueError", t |-> TimeNone]
                    ELSE datetime(year.v, month.v, day.v, hour.v, minute.v, second.v,
                                  tenth_second.v * 1000000, TRUE, offset.utcoffset)

(***************************************************************************)
(* struct.pack / struct.unpack_from, network byte order.                   *)
(***************************************************************************)
FitsU8(n) == n >= 0 /\ n <= 255
FitsU16(n) == n >= 0 /\ n <= 65535
\* 0 <= n <= 0xFFFFFFFF
FitsU32(n) == n >= 0 /\ n \div 65536 <= 65535

PackB(n) == <<n>>
PackH(n) == <<n \div 256, n % 256>>
PackI(n) == <<n \div 16777216, (n \div 65536) % 256, (n \div 256) % 256, n % 256>>
\* '!I' of a value given as its high and low 16-bit words
PackWords(w) == PackH(w[1]) \o PackH(w[2])

\* unpack_from(fmt, pdu, index)[0] for a buffer that holds the bytes.
UnpackAt(pdu, index, count) ==
    IF count = 1 THEN pdu[index + 1]
    ELSE IF count = 2 THEN pdu[index + 1] * 256 + pdu[index + 2]
    ELSE pdu[index + 1] * 16777216 + pdu[index + 2] * 65536
         + pdu[index + 3] * 256 + pdu[index + 4]

\* unpack_from('!I', pdu, index)[0] as its high and low 16-bit words
UnpackWords(pdu, index) == <<UnpackAt(pdu, index, 2), UnpackAt(pdu, index + 2, 2)>>

\* The length of the fixed PDU header.
PDU_HEADER_LENGTH == 16

(***************************************************************************)
(* codec.find_codec_info: the text codecs by name.  encode(text, errors)   *)
(* and decode(bytes) of the codecs 'ascii', 'latin_1' and 'ucs2'           *)
(* (UTF-16-BE restricted to the basic plane).                              *)
(***************************************************************************)
CodecNames == {"ascii", "latin_1", "ucs2"}

\* Whether the codec can encode code point c.
Encodable(name, c) ==
    IF name = "ascii" THEN c < 128
    ELSE IF name = "latin_1" THEN c < 256
    ELSE c < 65536 /\ ~(c >= 55296 /\ c <= 57343)

\* The kept characters of text under errors = 'replace' ('?') or 'ignore'.
Cleaned(name, text, errors) ==
    IF errors = "replace"
    THEN [i \in 1..Len(text) |-> IF Encodable(name, text[i]) THEN text[i] ELSE 63]
    ELSE SelectSeq(text, LAMBDA c : Encodable(name, c))

codec_encode(name, text, errors) ==
    IF name \notin CodecNames THEN [err |-> "LookupError", bytes |-> <<>>]
    ELSE
        LET clean == \A i \in 1..Len(text) : Encodable(name, text[i])
            t == IF clean THEN text ELSE Cleaned(name, text, errors)
        IN  IF errors = "strict" /\ ~clean
            THEN [err |-> "UnicodeEncodeError", bytes |-> <<>>]
            ELSE [err |-> "none",
                  bytes |-> IF name = "ucs2"
                            THEN [i \in 1..(2 * Len(t)) |->
                                     IF i % 2 = 1 THEN t[(i + 1) \div 2] \div 256
                                     ELSE t[i \div 2] % 256]
                            ELSE t]

codec_decode(name, bytes) ==
    IF name \notin CodecNames THEN [err |-> "LookupError", text |-> <<>>]
    ELSE IF name = "ascii" THEN
        IF \E i \in 1..Len(bytes) : bytes[i] >= 128
        THEN [err |-> "UnicodeDecodeError", text |-> <<>>]
        ELSE [err |-> "none", text |-> bytes]
    ELSE IF name = "latin_1" THEN [err |-> "none", text |-> bytes]
    ELSE
        LET units == [i \in 1..(Len(bytes) \div 2) |->
                          bytes[2 * i - 1] * 256 + bytes[2 * i]]
        IN  IF Len(bytes) % 2 = 1
               \/ \E i \in 1..Len(units) : units[i] >= 55296 /\ units[i] <= 57343
            THEN [err |-> "UnicodeDecodeError", text |-> <<>>]
            ELSE [err |-> "none", text |-> units]

(***************************************************************************)
(* state.SmppDataCoding: encoding name <-> data_coding octet (SMPP 5.2.19) *)
(***************************************************************************)
SmppDataCoding == [ascii |-> 1, latin_1 |-> 3, ucs2 |-> 8]

\* SmppDataCoding(data_coding).name; "" when the value is no member.
DataCodingName(data_coding) ==
    IF \E n \in DOMAIN SmppDataCoding : SmppDataCoding[n] = data_coding
    THEN CHOOSE n \in DOMAIN SmppDataCoding : SmppDataCoding[n] = data_coding
    ELSE ""

(***************************************************************************)
(* state.OptionalTag / state.OptionalParam: the TLV optional parameters.   *)
(* Each tag has a wire value and a declared type; an int tag also has a    *)
(* declared width.                                                         *)
(***************************************************************************)
OptionalTag ==
    [MESSAGE_PAYLOAD           |-> [value |-> 1060, data_type |-> "str", length |-> 0],
     RECEIPTED_MESSAGE_ID      |-> [value |-> 30, data_type |-> "str", length |-> 0],
     USER_MESSAGE_REFERENCE    |-> [value |-> 516, data_type |-> "int", length |-> 2],
     SC_INTERFACE_VERSION      |-> [value |-> 528, data_type |-> "int", length |-> 1],
     ALERT_ON_MESSAGE_DELIVERY |-> [value |-> 4876, data_type |-> "bool", length |-> 0]]

\* OptionalTag(value).name; "" when the value is no member.
OptionalTagName(value) ==
    IF \E n \in DOMAIN OptionalTag : OptionalTag[n].value = value
    THEN CHOOSE n \in DOMAIN OptionalTag : OptionalTag[n].value = value
    ELSE ""

\* OptionalParam(tag, value): the value is an int, a bool (always True) or a str.
OptionalParamInt(tag, v) == [tag |-> tag, int |-> v, str |-> <<>>]
OptionalParamBool(tag) == [tag |-> tag, int |-> 1, str |-> <<>>]
OptionalParamStr(tag, v) == [tag |-> tag, int |-> 0, str |-> v]

\* OptionalParam.tlv: tag:u16 | length:u16 | value
tlv(p) ==
    LET t == OptionalTag[p.tag]
    IN  IF t.data_type = "int"
        THEN PackH(t.value) \o PackH(t.length)
             \o (IF t.length = 1 THEN PackB(p.int)
                 ELSE IF t.length = 2 THEN PackH(p.int) ELSE PackI(p.int))
        ELSE IF t.data_type = "bool" THEN PackH(t.value) \o PackH(0)
        ELSE PackH(t.value) \o PackH(Len(p.str)) \o p.str

RECURSIVE JoinTlv(_)
\* b''.join(opt_param.tlv for opt_param in optional_params)
JoinTlv(params) ==
    IF params = <<>> THEN <<>> ELSE tlv(Head(params)) \o JoinTlv(Tail(params))

(***************************************************************************)
(* state.SmppCommand, state.SmppCommandStatus, state.TON, state.NPI,       *)
(* state.PhoneNumber, state.PduHeader.                                     *)
(***************************************************************************)
\* The command ids (0x00000004, 0x80000004, ...) as their high and low 16-bit words.
SmppCommand ==
    [GENERIC_NACK          |-> <<32768, 0>>,
     SUBMIT_SM             |-> <<0, 4>>,
     SUBMIT_SM_RESP        |-> <<32768, 4>>,
     DELIVER_SM            |-> <<0, 5>>,
     DELIVER_SM_RESP       |-> <<32768, 5>>,
     UNBIND                |-> <<0, 6>>,
     UNBIND_RESP           |-> <<32768, 6>>,
     BIND_TRANSCEIVER      |-> <<0, 9>>,
     BIND_TRANSCEIVER_RESP |-> <<32768, 9>>,
     ENQUIRE_LINK          |-> <<0, 21>>,
     ENQUIRE_LINK_RESP     |-> <<32768, 21>>]

\* SmppCommand(command_id).name; "" when the value is no member.
SmppCommandName(command_id) ==
    IF \E n \in DOMAIN SmppCommand : SmppCommand[n] = command_id
    THEN CHOOSE n \in DOMAIN SmppCommand : SmppCommand[n] = command_id
    ELSE ""

\* SmppCommandStatus values: ESME_ROK, ESME_RSYSERR, ESME_RTHROTTLED, ESME_RUNKNOWNERR
ESME_ROK == 0
SmppCommandStatus == {0, 8, 88, 255}

TON == 0..6
NPI == {0, 1, 3, 4, 6, 8, 9, 10, 14, 18}

PhoneNumber(number, ton, npi) == [number |-> number, ton |-> ton, npi |-> npi]

(***************************************************************************)
(* Delivery receipts: a dict from str keys to str, int or datetime values. *)
(***************************************************************************)
\* 'id'
K_id == <<105, 100>>
\* 'sub'
K_sub == <<115, 117, 98>>
\* 'dlvrd'
K_dlvrd == <<100, 108, 118, 114, 100>>
\* 'submit date'
K_submit_date == <<115, 117, 98, 109, 105, 116, 32, 100, 97, 116, 101>>
\* 'done date'
K_done_date == <<100, 111, 110, 101, 32, 100, 97, 116, 101>>
\* 'stat'
K_stat == <<115, 116, 97, 116>>
\* 'err'
K_err == <<101, 114, 114>>
\* 'text'
K_text == <<116, 101, 120, 116>>

RStr(s) == [t |-> "str", s |-> s, i |-> 0, d |-> TimeNone]
RInt(i) == [t |-> "int", s |-> <<>>, i |-> i, d |-> TimeNone]
RDate(d) == [t |-> "datetime", s |-> <<>>, i |-> 0, d |-> d]

\* receipt = None
NoReceipt == [present |-> FALSE, data |-> <<>>]
\* receipt = the dict data
Receipt(data) == [present |-> TRUE, data |-> data]
\* bool(receipt): neither None nor empty
ReceiptTruthy(r) == r.present /\ DOMAIN r.data # {}
\* dict d with d[k] = v
DictSet(d, k, v) == [x \in DOMAIN d \cup {k} |-> IF x = k THEN v ELSE d[x]]
\* receipt.get(key, default)
DictGet(d, k, default) == IF k \in DOMAIN d THEN d[k] ELSE default

\* f'{n:03d}' for n >= 0
Format03d(n) ==
    IF n < 10 THEN <<48, 48, 48 + n>>
    ELSE IF n < 100 THEN <<48>> \o Decimal(n)
    ELSE Decimal(n)

\* f'{text:20}': left-justified in 20 columns
PadTo20(text) == IF Len(text) >= 20 THEN text ELSE text \o Rep(32, 20 - Len(text))

\* date.strftime('%y%m%d%H%M') if date else ''
strftime_ymdHM(v) ==
    IF v.t # "datetime" THEN <<>>
    ELSE Format02d(v.d.year % 100) \o Format02d(v.d.month) \o Format02d(v.d.day)
         \o Format02d(v.d.hour) \o Format02d(v.d.minute)

\* The short_message DeliverSm.__init__ writes from a receipt.
receipt_text(data) ==
    <<105, 100, 58>> \o DictGet(data, K_id, RStr(<<>>)).s
    \o <<32, 115, 117, 98, 58>> \o Format03d(DictGet(data, K_sub, RInt(0)).i)
    \o <<32, 100, 108, 118, 114, 100, 58>> \o Format03d(DictGet(data, K_dlvrd, RInt(0)).i)
    \o <<32, 115, 117, 98, 109, 105, 116, 32, 100, 97, 116, 101, 58>>
    \o strftime_ymdHM(DictGet(data, K_submit_date, RStr(<<>>)))
    \o <<32, 100, 111, 110, 101, 32, 100, 97, 116, 101, 58>>
    \o strftime_ymdHM(DictGet(data, K_done_date, RStr(<<>>)))
    \o <<32, 115, 116, 97, 116, 58>> \o DictGet(data, K_stat, RStr(<<>>)).s
    \o <<32, 101, 114, 114, 58>> \o DictGet(data, K_err, RStr(<<>>)).s
    \o <<32, 84, 101, 120, 116, 58>> \o PadTo20(DictGet(data, K_text, RStr(<<>>)).s)

(***************************************************************************)
(* Constructors.  A constructor returns [err, msg]: err = "none" and the   *)
(* object, or the exception and no object.                                 *)
(*                                                                         *)
(* Scope: a constructor is the body of the class's __init__.  Trackable    *)
(* (lines 21-33) declares log_id and extra_data as abstract read-only      *)
(* properties, and Sm, SubmitSmResp and GenericNack only annotate them, so *)
(* CPython refuses to instantiate these classes (TypeError) before         *)
(* __init__ runs.  That instantiation check is outside this model: the     *)
(* model says what __init__, pdu and from_pdu compute once the two names   *)
(* are plain attributes.                                                   *)
(***************************************************************************)
NoMsg == [cmd |-> "none"]
Raised(e) == [err |-> e, msg |-> NoMsg]
Unset == [err |-> "unset", msg |-> NoMsg]

IsSm(m) == m.cmd \in {"SUBMIT_SM", "DELIVER_SM"}

\* Sm.__init__ (with SmppMessage.__init__): the checks and the assignments.
Sm_init(cmd, a, esm_class) ==
    IF \E i \in 1..Len(a.optional_params) : a.optional_params[i].tag = "MESSAGE_PAYLOAD"
    THEN Raised("ValueError")
    ELSE IF a.short_message = <<>> /\ a.message_payload = <<>>
    THEN Raised("ValueError")
    ELSE IF a.short_message # <<>> /\ a.message_payload # <<>>
    THEN Raised("ValueError")
    ELSE [err |-> "none",
          msg |-> [cmd |-> cmd,
                   command_status |-> ESME_ROK,
                   sequence_num |-> a.sequence_num,
                   short_message |-> a.short_message,
                   source |-> a.source,
                   destination |-> a.destination,
                   service_type |-> a.service_type,
                   esm_class |-> esm_class,
                   protocol_id |-> a.protocol_id,
                   priority_flag |-> a.priority_flag,
                   schedule_delivery_time |-> a.schedule_delivery_time,
                   validity_period |-> a.validity_period,
                   registered_delivery |-> a.registered_delivery,
                   replace_if_present_flag |-> a.replace_if_present_flag,
                   encoding |-> a.encoding,
                   sm_default_msg_id |-> a.sm_default_msg_id,
                   message_payload |-> a.message_payload,
                   optional_params |-> a.optional_params,
                   auto_message_payload |-> a.auto_message_payload,
                   error_handling |-> a.error_handling,
                   log_id |-> a.log_id,
                   extra_data |-> a.extra_data,
                   receipt |-> NoReceipt,
                   default_encoding |-> ""]]

\* SubmitSm.__init__
SubmitSm_init(a) ==
    IF a.log_id = <<>> THEN Raised("ValueError")
    ELSE Sm_init("SUBMIT_SM", a, a.esm_class)

\* DeliverSm.__init__
DeliverSm_init(a) ==
    LET base == Sm_init("DELIVER_SM", a,
                        IF ReceiptTruthy(a.receipt) THEN 4 ELSE a.esm_class)
    IN  IF base.err # "none" THEN base
        ELSE [err |-> "none",
              msg |-> [base.msg EXCEPT
                         !.receipt = a.receipt,
                         !.short_message =
                             IF ReceiptTruthy(a.receipt) /\ a.short_message = <<>>
                             THEN receipt_text(a.receipt.data) ELSE @]]

\* SmResp.__init__ / SubmitSmResp.__init__ / DeliverSmResp.__init__
SmResp_init(cmd, a) ==
    [err |-> "none",
     msg |-> [cmd |-> cmd, command_status |-> a.command_status,
              sequence_num |-> a.sequence_num, message_id |-> a.message_id,
              log_id |-> a.log_id, extra_data |-> a.extra_data]]

\* GenericNack.__init__
GenericNack_init(a) ==
    [err |-> "none",
     msg |-> [cmd |-> "GENERIC_NACK", command_status |-> a.command_status,
              sequence_num |-> a.sequence_num,
              log_id |-> a.log_id, extra_data |-> a.extra_data]]

\* BindTransceiver.__init__
BindTransceiver_init(a) ==
    [err |-> "none",
     msg |-> [cmd |-> "BIND_TRANSCEIVER", command_status |-> ESME_ROK,
              sequence_num |-> a.sequence_num, system_id |-> a.system_id,
              password |-> a.password, system_type |-> a.system_type,
              interface_version |-> a.interface_version, addr_ton |-> a.addr_ton,
              addr_npi |-> a.addr_npi, address_range |-> a.address_range]]

\* sc_interface_version: Optional[int]
NoVersion == [set |-> FALSE, v |-> 0]
Version(v) == [set |-> TRUE, v |-> v]

\* BindTransceiverResp.__init__
BindTransceiverResp_init(a) ==
    [err |-> "none",
     msg |-> [cmd |-> "BIND_TRANSCEIVER_RESP", command_status |-> a.command_status,
              sequence_num |-> a.sequence_num, system_id |-> a.system_id,
              sc_interface_version |-> a.sc_interface_version]]

\* EnquireLink.__init__ / Unbind.__init__: requests without a body
Request_init(cmd, a) ==
    [err |-> "none",
     msg |-> [cmd |-> cmd, command_status |-> ESME_ROK, sequence_num |-> a.sequence_num]]

\* EnquireLinkResp.__init__ / UnbindResp.__init__: responses without a body
Response_init(cmd, a) ==
    [err |-> "none",
     msg |-> [cmd |-> cmd, command_status |-> a.command_status,
              sequence_num |-> a.sequence_num]]

(***************************************************************************)
(* Encoding: SmppMessage.pack_header, Sm.smpp_encode, pdu() of each class. *)
(* pdu() returns [err, bytes, msg]: the PDU, and the message as the call   *)
(* leaves it (smpp_encode may set its encoding).                           *)
(***************************************************************************)
IsAscii(text) == \A i \in 1..Len(text) : text[i] < 128

\* A slip in the header: the body length is packed, the 16 header octets
\* not counted.
pack_header_body_length(m, pdu_len) ==
    PackI(pdu_len - PDU_HEADER_LENGTH) \o PackWords(SmppCommand[m.cmd])
    \o PackI(m.command_status) \o PackI(m.sequence_num)

\* SmppMessage.pack_header
pack_header(m, pdu_len) ==
    PackI(pdu_len) \o PackWords(SmppCommand[m.cmd])
    \o PackI(m.command_status) \o PackI(m.sequence_num)

\* A slip in the indentation: self.encoding = 'ucs2' runs after the
\* try/except, also when the default codec encoded the text.
smpp_encode_pins_always(m, text) ==
    IF m.encoding = "" THEN
        LET first == codec_encode(m.default_encoding, text, m.error_handling)
        IN  IF first.err = "UnicodeEncodeError" THEN
                LET second == codec_encode("ucs2", text, m.error_handling)
                IN  [err |-> second.err, bytes |-> second.bytes,
                     encoding |-> IF second.err = "none" THEN "ucs2" ELSE m.encoding]
            ELSE [err |-> first.err, bytes |-> first.bytes,
                  encoding |-> IF first.err = "none" THEN "ucs2" ELSE m.encoding]
    ELSE
        LET only == codec_encode(m.encoding, text, m.error_handling)
        IN  [err |-> only.err, bytes |-> only.bytes, encoding |-> m.encoding]

\* A slip in the fallback: the text is encoded with ucs2 and self.encoding
\* is left unset.
smpp_encode_unpinned(m, text) ==
    IF m.encoding = "" THEN
        LET first == codec_encode(m.default_encoding, text, m.error_handling)
        IN  IF first.err = "UnicodeEncodeError" THEN
                LET second == codec_encode("ucs2", text, m.error_handling)
                IN  [err |-> second.err, bytes |-> second.bytes, encoding |-> m.encoding]
            ELSE [err |-> first.err, bytes |-> first.bytes, encoding |-> m.encoding]
    ELSE
        LET only == codec_encode(m.encoding, text, m.error_handling)
        IN  [err |-> only.err, bytes |-> only.bytes, encoding |-> m.encoding]

\* Sm.smpp_encode(text): [err, bytes, encoding], encoding being self.encoding
\* after the call.
smpp_encode(m, text) ==
    IF m.encoding = "" THEN
        \* Auto; first try default encoding, fallback to UCS2
        LET first == codec_encode(m.default_encoding, text, m.error_handling)
        IN  IF first.err = "UnicodeEncodeError" THEN
                LET second == codec_encode("ucs2", text, m.error_handling)
                IN  [err |-> second.err, bytes |-> second.bytes,
                     encoding |-> IF second.err = "none" THEN "ucs2" ELSE m.encoding]
            ELSE [err |-> first.err, bytes |-> first.bytes, encoding |-> m.encoding]
    ELSE
        LET only == codec_encode(m.encoding, text, m.error_handling)
        IN  [err |-> only.err, bytes |-> only.bytes, encoding |-> m.encoding]

TooLong == "ValueError: Message is too long"
ValidityTooLong == "ValueError: Maximum message validity is 63 weeks"

\* A slip in the length check: the text is not asked to be in short_message.
message_too_long_any_text(m, sm_length) ==
    sm_length > 254 /\ ~m.auto_message_payload

\* Sm.pdu: `if sm_length > 254 and self.short_message and not
\* self.auto_message_payload`
message_too_long(m, sm_length) ==
    sm_length > 254 /\ m.short_message # <<>> /\ ~m.auto_message_payload

\* Sm.pdu: `if sm_length > 254 or self.message_payload`
moves_to_payload(m, sm_length) ==
    sm_length > 254 \/ m.message_payload # <<>>

\* Sm.pdu once the text is encoded (enc) and the two times are formatted
Sm_pdu_encoded(m, enc, schedule, validity) ==
    LET m1 == [m EXCEPT !.encoding = enc.encoding]
        data_coding == IF m1.encoding # "" THEN SmppDataCoding[m1.encoding] ELSE 0
        length == Len(enc.bytes)
        promote == moves_to_payload(m, length)
        encoded_message_payload ==
            IF promote
            THEN PackH(OptionalTag.MESSAGE_PAYLOAD.value) \o PackH(length) \o enc.bytes
            ELSE <<>>
        encoded_short_message == IF promote THEN <<>> ELSE enc.bytes
        sm_length == IF promote THEN 0 ELSE length
        body ==
            m.service_type \o <<0>>
            \o PackB(m.source.ton) \o PackB(m.source.npi) \o m.source.number \o <<0>>
            \o PackB(m.destination.ton) \o PackB(m.destination.npi)
            \o m.destination.number \o <<0>>
            \o PackB(m.esm_class) \o PackB(m.protocol_id) \o PackB(m.priority_flag)
            \o schedule.str \o <<0>>
            \o validity.str \o <<0>>
            \o PackB(m.registered_delivery) \o PackB(m.replace_if_present_flag)
            \o PackB(data_coding) \o PackB(m.sm_default_msg_id) \o PackB(sm_length)
            \o encoded_short_message
            \o encoded_message_payload
            \o JoinTlv(m.optional_params)
        fail(e, after) == [err |-> e, bytes |-> <<>>, msg |-> after]
    IN  IF enc.err # "none" THEN fail(enc.err, m1)
        ELSE IF message_too_long(m, length) THEN fail(TooLong, m1)
        ELSE IF promote /\ ~FitsU16(length) THEN fail("struct.error", m1)
        ELSE IF ~(IsAscii(m.service_type) /\ IsAscii(m.source.number)
                  /\ IsAscii(m.destination.number))
        THEN fail("UnicodeEncodeError", m1)
        ELSE IF ~(FitsU8(m.esm_class) /\ FitsU8(m.protocol_id) /\ FitsU8(m.priority_flag))
        THEN fail("struct.error", m1)
        ELSE IF schedule.err # "none" \/ validity.err # "none"
        THEN fail(ValidityTooLong, m1)
        ELSE IF ~(FitsU8(m.registered_delivery) /\ FitsU8(m.replace_if_present_flag)
                  /\ FitsU8(m.sm_default_msg_id) /\ FitsU32(m.sequence_num))
        THEN fail("struct.error", m1)
        ELSE [err |-> "none",
              bytes |-> pack_header(m1, PDU_HEADER_LENGTH + Len(body)) \o body,
              msg |-> m1]

\* Sm.pdu
Sm_pdu(m) ==
    Sm_pdu_encoded(m,
                   smpp_encode(m, IF m.short_message # <<>> THEN m.short_message
                                  ELSE m.message_payload),
                   datetime_to_smpp_time(m.schedule_delivery_time),
                   datetime_to_smpp_time(m.validity_period))

\* pdu() of a class whose body is `body`
WithHeader(m, body) ==
    IF ~IsAscii(body) THEN [err |-> "UnicodeEncodeError", bytes |-> <<>>, msg |-> m]
    ELSE [err |-> "none",
          bytes |-> pack_header(m, PDU_HEADER_LENGTH + Len(body)) \o body,
          msg |-> m]

\* SmResp.pdu with the log_id after the message_id
SmResp_pdu_with_log_id(m) == WithHeader(m, m.message_id \o <<0>> \o m.log_id)


\* SmResp.pdu
SmResp_pdu(m) == WithHeader(m, m.message_id \o <<0>>)

\* BindTransceiver.pdu
BindTransceiver_pdu(m) ==
    WithHeader(m, m.system_id \o <<0>> \o m.password \o <<0>> \o m.system_type \o <<0>>
                  \o PackB(m.interface_version) \o PackB(m.addr_ton) \o PackB(m.addr_npi)
                  \o m.address_range \o <<0>>)

\* BindTransceiverResp.pdu
BindTransceiverResp_pdu(m) ==
    WithHeader(m, m.system_id \o <<0>>
                  \o (IF m.sc_interface_version.set
                      THEN tlv(OptionalParamInt("SC_INTERFACE_VERSION",
                                                m.sc_interface_version.v))
                      ELSE <<>>))

\* SmppMessage.pdu: the classes without a body
SmppMessage_pdu(m) ==
    [err |-> "none", bytes |-> pack_header(m, PDU_HEADER_LENGTH), msg |-> m]

\* m.pdu(), by the class of m
message_pdu(m) ==
    IF IsSm(m) THEN Sm_pdu(m)
    ELSE IF m.cmd \in {"SUBMIT_SM_RESP", "DELIVER_SM_RESP"} THEN SmResp_pdu(m)
    ELSE IF m.cmd = "BIND_TRANSCEIVER" THEN BindTransceiver_pdu(m)
    ELSE IF m.cmd = "BIND_TRANSCEIVER_RESP" THEN BindTransceiverResp_pdu(m)
    ELSE SmppMessage_pdu(m)

(***************************************************************************)
(* Decoding: SmppMessage.parse_header and the readers the from_pdu methods *)
(* share.  A reader takes the result of the read before it and returns     *)
(* [err, int, str, index]; once a read has raised, the rest are skipped.   *)
(* index counts from 0, as in the source.                                  *)
(***************************************************************************)
\* s.find(c, start): the first position >= start holding c, or -1.
Find(s, c, start) ==
    LET hits == {i \in start..(Len(s) - 1) : s[i + 1] = c}
    IN  IF hits = {} THEN -1 ELSE CHOOSE i \in hits : \A j \in hits : i <= j

\* SmppMessage.parse_header
parse_header(header_data) ==
    IF Len(header_data) < 16
    THEN [err |-> "struct.error", pdu_length |-> 0, smpp_command |-> "",
          command_status |-> 0, sequence_num |-> 0]
    ELSE
        LET pdu_length == UnpackAt(header_data, 0, 4)
            command_id == UnpackWords(header_data, 4)
            command_status_id == UnpackAt(header_data, 8, 4)
            sequence_num == UnpackAt(header_data, 12, 4)
        IN  [err |-> IF SmppCommandName(command_id) = ""
                        \/ command_status_id \notin SmppCommandStatus
                     THEN "ValueError" ELSE "none",
             pdu_length |-> pdu_length,
             smpp_command |-> SmppCommandName(command_id),
             command_status |-> command_status_id,
             sequence_num |-> sequence_num]

Read(err, int, str, index) == [err |-> err, int |-> int, str |-> str, index |-> index]
ReadStart(index) == Read("none", 0, <<>>, index)

\* get_c_octet_string(): up to the next NULL, decoded as ascii
get_c_octet_string(pdu, prev) ==
    IF prev.err # "none" THEN prev
    ELSE
        LET str_end == Find(pdu, 0, prev.index)
            octets == SubSeq(pdu, prev.index + 1, str_end)
        IN  IF str_end = -1 THEN Read("ValueError", 0, <<>>, prev.index)
            ELSE IF ~IsAscii(octets) THEN Read("UnicodeDecodeError", 0, <<>>, prev.index)
            ELSE Read("none", 0, octets, str_end + 1)

\* get_octet_string(count): count octets decoded as ascii, one trailing NULL
\* stripped
get_octet_string(pdu, prev, count) ==
    IF prev.err # "none" THEN prev
    ELSE
        LET octets == Slice(pdu, prev.index, prev.index + count)
        IN  IF ~IsAscii(octets) THEN Read("UnicodeDecodeError", 0, <<>>, prev.index)
            ELSE Read("none", 0,
                      IF octets # <<>> /\ octets[Len(octets)] = 0
                      THEN SubSeq(octets, 1, Len(octets) - 1) ELSE octets,
                      prev.index + count)

\* get_integer(count) / get_char(): an unsigned integer of 1, 2 or 4 octets
get_integer(pdu, prev, count) ==
    IF prev.err # "none" THEN prev
    ELSE IF count \notin {1, 2, 4} THEN Read("KeyError", 0, <<>>, prev.index)
    ELSE IF prev.index + count > Len(pdu) THEN Read("struct.error", 0, <<>>, prev.index)
    ELSE Read("none", UnpackAt(pdu, prev.index, count), <<>>, prev.index + count)

\* TON(x) / NPI(x): ValueError when x is no member of the enumeration
as_enum(prev, members) ==
    IF prev.err = "none" /\ prev.int \notin members
    THEN Read("ValueError", prev.int, <<>>, prev.index)
    ELSE prev

(***************************************************************************)
(* Sm.from_pdu                                                             *)
(***************************************************************************)
OptState(err, index, message_payload, optional_params) ==
    [err |-> err, index |-> index, message_payload |-> message_payload,
     optional_params |-> optional_params]

\* One round of the loop `while index < header.pdu_length`: one TLV is read.
read_optional_param(pdu, encoding, st) ==
    LET tag_read == get_integer(pdu, ReadStart(st.index), 2)
        tag == OptionalTagName(tag_read.int)
        length == get_integer(pdu, tag_read, 2)
        index == length.index
    IN  IF tag_read.err # "none"
        THEN OptState(tag_read.err, st.index, st.message_payload, st.optional_params)
        ELSE IF tag = ""
        THEN OptState("ValueError", st.index, st.message_payload, st.optional_params)
        ELSE IF length.err # "none"
        THEN OptState(length.err, st.index, st.message_payload, st.optional_params)
        ELSE IF tag = "MESSAGE_PAYLOAD" THEN
            LET text == codec_decode(encoding, Slice(pdu, index, index + length.int))
            IN  OptState(text.err, index + length.int,
                         IF text.err = "none" THEN text.text ELSE st.message_payload,
                         st.optional_params)
        ELSE IF OptionalTag[tag].data_type = "int" THEN
            LET int_value == get_integer(pdu, length, length.int)
            IN  OptState(int_value.err, int_value.index, st.message_payload,
                         IF int_value.err = "none"
                         THEN Append(st.optional_params, OptionalParamInt(tag, int_value.int))
                         ELSE st.optional_params)
        ELSE IF OptionalTag[tag].data_type = "bool" THEN
            OptState("none", index, st.message_payload,
                     Append(st.optional_params, OptionalParamBool(tag)))
        ELSE
            LET str_value == get_octet_string(pdu, length, length.int)
            IN  OptState(str_value.err, str_value.index, st.message_payload,
                         IF str_value.err = "none"
                         THEN Append(st.optional_params, OptionalParamStr(tag, str_value.str))
                         ELSE st.optional_params)

RECURSIVE read_optional_params(_, _, _, _)
\* The loop over the optional parameters.
read_optional_params(pdu, pdu_length, encoding, st) ==
    IF st.err # "none" \/ st.index >= pdu_length THEN st
    ELSE read_optional_params(pdu, pdu_length, encoding,
                              read_optional_param(pdu, encoding, st))

\* The constructor call that ends Sm.from_pdu: cls(...)
Sm_construct(cls, a) ==
    IF cls = "SUBMIT_SM" THEN SubmitSm_init(a) ELSE DeliverSm_init(a)

\* Sm.from_pdu
Sm_from_pdu(cls, pdu, header, default_encoding) ==
    LET service_type == get_c_octet_string(pdu, ReadStart(PDU_HEADER_LENGTH))
        source_ton == as_enum(get_integer(pdu, service_type, 1), TON)
        source_npi == as_enum(get_integer(pdu, source_ton, 1), NPI)
        source_number == get_c_octet_string(pdu, source_npi)
        dest_ton == as_enum(get_integer(pdu, source_number, 1), TON)
        dest_npi == as_enum(get_integer(pdu, dest_ton, 1), NPI)
        dest_number == get_c_octet_string(pdu, dest_npi)
        esm_class == get_integer(pdu, dest_number, 1)
        protocol_id == get_integer(pdu, esm_class, 1)
        priority_flag == get_integer(pdu, protocol_id, 1)
        schedule_delivery_time == get_c_octet_string(pdu, priority_flag)
        validity_period == get_c_octet_string(pdu, schedule_delivery_time)
        registered_delivery == get_integer(pdu, validity_period, 1)
        replace_if_present_flag == get_integer(pdu, registered_delivery, 1)
        data_coding == get_integer(pdu, replace_if_present_flag, 1)
        encoding == IF data_coding.int # 0 THEN DataCodingName(data_coding.int)
                    ELSE default_encoding
        sm_default_msg_id == get_integer(pdu, data_coding, 1)
        sm_length == get_integer(pdu, sm_default_msg_id, 1)
        index == sm_length.index
        short_message == codec_decode(encoding, Slice(pdu, index, index + sm_length.int))
        opt == read_optional_params(pdu, header.pdu_length, encoding,
                                    OptState("none", index + sm_length.int, <<>>, <<>>))
        schedule == smpp_time_to_datetime(schedule_delivery_time.str)
        validity == smpp_time_to_datetime(validity_period.str)
    IN  IF data_coding.err # "none" THEN Raised(data_coding.err)
        ELSE IF data_coding.int # 0 /\ encoding = "" THEN Raised("ValueError")
        ELSE IF encoding \notin CodecNames THEN Raised("LookupError")
        ELSE IF sm_length.err # "none" THEN Raised(sm_length.err)
        ELSE IF short_message.err # "none" THEN Raised(short_message.err)
        ELSE IF opt.err # "none" THEN Raised(opt.err)
        ELSE IF schedule.err # "none" THEN Raised(schedule.err)
        ELSE IF validity.err # "none" THEN Raised(validity.err)
        ELSE Sm_construct(cls,
                 [short_message |-> short_message.text,
                  source |-> PhoneNumber(source_number.str, source_ton.int, source_npi.int),
                  destination |-> PhoneNumber(dest_number.str, dest_ton.int, dest_npi.int),
                  service_type |-> service_type.str,
                  esm_class |-> esm_class.int,
                  protocol_id |-> protocol_id.int,
                  priority_flag |-> priority_flag.int,
                  schedule_delivery_time |-> schedule.t,
                  validity_period |-> validity.t,
                  registered_delivery |-> registered_delivery.int,
                  replace_if_present_flag |-> replace_if_present_flag.int,
                  encoding |-> encoding,
                  sm_default_msg_id |-> sm_default_msg_id.int,
                  message_payload |-> opt.message_payload,
                  optional_params |-> opt.optional_params,
                  auto_message_payload |-> TRUE,
                  error_handling |-> "strict",
                  sequence_num |-> header.sequence_num,
                  log_id |-> <<>>,
                  extra_data |-> <<>>,
                  receipt |-> NoReceipt])

(***************************************************************************)
(* DeliverSm.from_pdu: the delivery receipt read from short_message.       *)
(***************************************************************************)
\* str.lower() on the ASCII letters
Lower(text) == [i \in 1..Len(text) |-> IF text[i] >= 65 /\ text[i] <= 90
                                          THEN text[i] + 32 ELSE text[i]]

\* datetime.strptime(value, '%y%m%d%H%M') for a value of ten digits; any
\* other value is a ValueError here.
strptime_ymdHM(value) ==
    IF Len(value) # 10 \/ \E i \in 1..Len(value) : ~IsDigit(value[i])
    THEN [err |-> "ValueError", t |-> TimeNone]
    ELSE LET yy == TwoDigits(value, 0)
         IN  datetime(IF yy < 69 THEN 2000 + yy ELSE 1900 + yy, TwoDigits(value, 2),
                      TwoDigits(value, 4), TwoDigits(value, 6), TwoDigits(value, 8),
                      0, 0, FALSE, 0)

\* A slip in the receipt reader: the value of `text` ends at the next blank
\* like any other.
get_receipt_param_text_to_blank(short_message, index) ==
    LET colon == Find(short_message, 58, index)
        param == Lower(SubSeq(short_message, index + 1, colon))
        start == colon + 1
        space == Find(short_message, 32, start)
        str_end == IF space = -1 THEN Len(short_message) ELSE space
    IN  IF colon = -1
        THEN [found |-> FALSE, param |-> <<>>, value |-> <<>>, index |-> index]
        ELSE [found |-> TRUE, param |-> param,
              value |-> SubSeq(short_message, start + 1, str_end),
              index |-> str_end + 1]

\* get_receipt_param(): the next `param:value` of short_message from index
get_receipt_param(short_message, index) ==
    LET colon == Find(short_message, 58, index)
        param == Lower(SubSeq(short_message, index + 1, colon))
        start == colon + 1
        space == Find(short_message, 32, start)
        \* Text must be last
        str_end == IF space = -1 \/ param = K_text THEN Len(short_message) ELSE space
    IN  IF colon = -1
        THEN [found |-> FALSE, param |-> <<>>, value |-> <<>>, index |-> index]
        ELSE [found |-> TRUE, param |-> param,
              value |-> SubSeq(short_message, start + 1, str_end),
              index |-> str_end + 1]

RECURSIVE receipt_params(_, _, _)
\* The loop `while True` over the receipt's params: [err, data]
receipt_params(short_message, index, rcpt_data) ==
    LET p == get_receipt_param(short_message, index)
    IN  IF ~p.found THEN [err |-> "none", data |-> rcpt_data]
        ELSE IF p.param \in {K_sub, K_dlvrd} THEN
            LET n == ParseInt(p.value)
            IN  IF ~n.ok THEN [err |-> "ValueError", data |-> rcpt_data]
                ELSE receipt_params(short_message, p.index,
                                    DictSet(rcpt_data, p.param, RInt(n.v)))
        ELSE IF p.param \in {K_submit_date, K_done_date} THEN
            LET d == strptime_ymdHM(p.value)
            IN  IF d.err # "none" THEN [err |-> "ValueError", data |-> rcpt_data]
                ELSE receipt_params(short_message, p.index,
                                    DictSet(rcpt_data, p.param, RDate(d.t)))
        ELSE receipt_params(short_message, p.index,
                            DictSet(rcpt_data, p.param, RStr(p.value)))

\* The id taken from the receipted_message_id param when the text gave none.
receipt_with_id(rcpt_data, optional_params) ==
    LET ids == {i \in 1..Len(optional_params) :
                    optional_params[i].tag = "RECEIPTED_MESSAGE_ID"}
        first == CHOOSE i \in ids : \A j \in ids : i <= j
    IN  IF DictGet(rcpt_data, K_id, RStr(<<>>)).s = <<>> /\ ids # {}
        THEN DictSet(rcpt_data, K_id, RStr(optional_params[first].str))
        ELSE rcpt_data

\* DeliverSm.from_pdu after `deliver_sm = super().from_pdu(...)`
DeliverSm_receipt(deliver_sm) ==
    LET \* Only middle 4 bits are relevant: 0 = incoming SMS, 1 = delivery receipt
        message_class == (deliver_sm.msg.esm_class \div 4) % 16
        rcpt == receipt_params(deliver_sm.msg.short_message, 0, <<>>)
    IN  IF deliver_sm.err # "none" THEN deliver_sm
        ELSE IF message_class # 1 THEN deliver_sm
        ELSE IF rcpt.err # "none" THEN Raised(rcpt.err)
        ELSE [err |-> "none",
              msg |-> [deliver_sm.msg EXCEPT
                         !.receipt = Receipt(receipt_with_id(rcpt.data,
                                                      deliver_sm.msg.optional_params))]]

\* DeliverSm.from_pdu
DeliverSm_from_pdu(pdu, header, default_encoding) ==
    DeliverSm_receipt(Sm_from_pdu("DELIVER_SM", pdu, header, default_encoding))

(***************************************************************************)
(* from_pdu of the other classes, and the dispatch table.                  *)
(***************************************************************************)
\* SmppMessage.from_pdu: the classes without a body.  A request's __init__
\* takes no command_status.
SmppMessage_from_pdu(cmd, header) ==
    IF cmd \in {"ENQUIRE_LINK", "UNBIND"}
    THEN Request_init(cmd, [sequence_num |-> header.sequence_num])
    ELSE IF cmd = "GENERIC_NACK"
    THEN GenericNack_init([sequence_num |-> header.sequence_num,
                           command_status |-> header.command_status,
                           log_id |-> <<>>, extra_data |-> <<>>])
    ELSE Response_init(cmd, [sequence_num |-> header.sequence_num,
                             command_status |-> header.command_status])

\* SmResp.from_pdu
SmResp_from_pdu(cmd, pdu, header) ==
    LET message_id == Slice(pdu, PDU_HEADER_LENGTH, header.pdu_length - 1)
    IN  IF ~IsAscii(message_id) THEN Raised("UnicodeDecodeError")
        ELSE SmResp_init(cmd, [sequence_num |-> header.sequence_num,
                               command_status |-> header.command_status,
                               message_id |-> message_id,
                               log_id |-> <<>>, extra_data |-> <<>>])

\* BindTransceiver.from_pdu
BindTransceiver_from_pdu(pdu, header) ==
    LET system_id == get_c_octet_string(pdu, ReadStart(PDU_HEADER_LENGTH))
        password == get_c_octet_string(pdu, system_id)
        system_type == get_c_octet_string(pdu, password)
        interface_version == get_integer(pdu, system_type, 1)
        addr_ton == as_enum(get_integer(pdu, interface_version, 1), TON)
        addr_npi == as_enum(get_integer(pdu, addr_ton, 1), NPI)
        address_range == get_c_octet_string(pdu, addr_npi)
    IN  IF address_range.err # "none" THEN Raised(address_range.err)
        ELSE BindTransceiver_init(
                 [system_id |-> system_id.str, password |-> password.str,
                  system_type |-> system_type.str,
                  interface_version |-> interface_version.int,
                  addr_ton |-> addr_ton.int, addr_npi |-> addr_npi.int,
                  address_range |-> address_range.str,
                  sequence_num |-> header.sequence_num])

\* BindTransceiverResp.from_pdu reading the version whenever octets remain
\* after system_id, whatever their number.
BindTransceiverResp_from_pdu_any_tail(pdu, header) ==
    LET system_id == get_c_octet_string(pdu, ReadStart(PDU_HEADER_LENGTH))
        version == IF system_id.index < header.pdu_length
                   THEN get_integer(pdu, ReadStart(system_id.index + 4), 1)
                   ELSE Read("none", -1, <<>>, system_id.index)
    IN  IF system_id.err # "none" THEN Raised(system_id.err)
        ELSE IF version.err # "none" THEN Raised(version.err)
        ELSE BindTransceiverResp_init(
                 [system_id |-> system_id.str,
                  sequence_num |-> header.sequence_num,
                  command_status |-> header.command_status,
                  sc_interface_version |-> IF version.int = -1 THEN NoVersion
                                           ELSE Version(version.int)])

\* BindTransceiverResp.from_pdu
BindTransceiverResp_from_pdu(pdu, header) ==
    LET system_id == get_c_octet_string(pdu, ReadStart(PDU_HEADER_LENGTH))
        index == system_id.index
        \* Optional param sc_interface_version. It must have a total of 5 bytes.
        version == IF index < header.pdu_length /\ index + 4 + 1 = header.pdu_length
                   THEN get_integer(pdu, ReadStart(index + 4), 1)
                   ELSE Read("none", -1, <<>>, index)
    IN  IF system_id.err # "none" THEN Raised(system_id.err)
        ELSE IF version.err # "none" THEN Raised(version.err)
        ELSE BindTransceiverResp_init(
                 [system_id |-> system_id.str,
                  sequence_num |-> header.sequence_num,
                  command_status |-> header.command_status,
                  sc_interface_version |-> IF version.int = -1 THEN NoVersion
                                           ELSE Version(version.int)])

\* MESSAGE_TYPE_MAP[header.smpp_command].from_pdu(pdu, header, default_encoding)
from_pdu(pdu, header, default_encoding) ==
    LET cmd == header.smpp_command
    IN  IF cmd \in {"SUBMIT_SM"} THEN Sm_from_pdu(cmd, pdu, header, default_encoding)
        ELSE IF cmd = "DELIVER_SM" THEN DeliverSm_from_pdu(pdu, header, default_encoding)
        ELSE IF cmd \in {"SUBMIT_SM_RESP", "DELIVER_SM_RESP"}
        THEN SmResp_from_pdu(cmd, pdu, header)
        ELSE IF cmd = "BIND_TRANSCEIVER" THEN BindTransceiver_from_pdu(pdu, header)
        ELSE IF cmd = "BIND_TRANSCEIVER_RESP" THEN BindTransceiverResp_from_pdu(pdu, header)
        ELSE SmppMessage_from_pdu(cmd, header)

(***************************************************************************)
(* as_dict: the projection of a message for logging.                       *)
(***************************************************************************)
\* The fields of a message record that are no public attribute of the
\* object: cmd stands for the class, default_encoding for _default_encoding;
\* a SubmitSm has no receipt and a DeliverSmResp no tracking fields.
NotInDict(m) ==
    {"cmd", "default_encoding"}
    \cup (IF m.cmd = "SUBMIT_SM" THEN {"receipt"} ELSE {})
    \cup (IF m.cmd = "DELIVER_SM_RESP" THEN {"log_id", "extra_data"} ELSE {})

\* SmppMessage.as_dict
SmppMessage_as_dict(m) == [f \in (DOMAIN m) \ NotInDict(m) |-> m[f]]

\* '{REDACTED}'
REDACTED == <<123, 82, 69, 68, 65, 67, 84, 69, 68, 125>>

\* BindTransceiver.as_dict without the override
BindTransceiver_as_dict_plain(m) == SmppMessage_as_dict(m)

\* BindTransceiver.as_dict
BindTransceiver_as_dict(m) == [SmppMessage_as_dict(m) EXCEPT !.password = REDACTED]

\* m.as_dict(), by the class of m
as_dict(m) ==
    IF m.cmd = "BIND_TRANSCEIVER" THEN BindTransceiver_as_dict(m)
    ELSE SmppMessage_as_dict(m)

(***************************************************************************)
(* The inputs of the message codec: the arguments callers hand to the      *)
(* constructors.                                                           *)
(***************************************************************************)
\* Largest sequence number handed to a constructor.
MaxSeq == 2

\* 'hi'
T_hi == <<104, 105>>
\* 254 and 255 times 'a': the longest text that fits short_message in a
\* one-octet codec, and the shortest that does not
T_a254 == Rep(97, 254)
T_a255 == Rep(97, 255)
\* 300 times 'a'
T_a300 == Rep(97, 300)
\* 'e' with acute accent: latin_1, not ascii
T_latin == <<104, 233>>
\* CJK characters (U+4E2D): ucs2 only; 1, 127 (254 octets) and 128 (256 octets)
T_cjk == <<20013>>
T_cjk127 == Rep(20013, 127)
T_cjk128 == Rep(20013, 128)
\* a lone surrogate: no codec encodes it under 'strict'
T_surrogate == <<104, 55296>>
\* 65536 times 'a': one octet more than a TLV length field can say
T_huge == Rep(97, 65535 + 1)

Texts == {T_hi, T_a254, T_a255, T_a300, T_latin, T_cjk, T_cjk127, T_cjk128, T_surrogate}

\* encoding = None is "", as is an unset _default_encoding
Encodings == {"", "ascii", "latin_1", "ucs2"}
DefaultEncodings == {"ascii", "latin_1"}

\* A delivery receipt text as its tokens: the key and the value as written,
\* and the value the receipt is to hold for it.
Tok(key, value, typed) == [key |-> key, value |-> value, typed |-> typed]

NaiveDatetime(y, mo, d, h, mi) ==
    [kind |-> "datetime", year |-> y, month |-> mo, day |-> d, hour |-> h,
     minute |-> mi, second |-> 0, microsecond |-> 0, aware |-> FALSE, utcoffset |-> 0]

\* 'id:abc sub:001 dlvrd:001 submit date:2401011200 done date:2401011201 stat:DELIVRD err:000 Text:hello'
TL_full ==
    <<Tok(<<105, 100>>, <<97, 98, 99>>,
         RStr(<<97, 98, 99>>)),
      Tok(<<115, 117, 98>>, <<48, 48, 49>>,
         RInt(1)),
      Tok(<<100, 108, 118, 114, 100>>, <<48, 48, 49>>,
         RInt(1)),
      Tok(<<115, 117, 98, 109, 105, 116, 32, 100, 97, 116, 101>>, <<50, 52, 48, 49, 48, 49, 49, 50, 48, 48>>,
         RDate(NaiveDatetime(2024, 1, 1, 12, 0))),
      Tok(<<100, 111, 110, 101, 32, 100, 97, 116, 101>>, <<50, 52, 48, 49, 48, 49, 49, 50, 48, 49>>,
         RDate(NaiveDatetime(2024, 1, 1, 12, 1))),
      Tok(<<115, 116, 97, 116>>, <<68, 69, 76, 73, 86, 82, 68>>,
         RStr(<<68, 69, 76, 73, 86, 82, 68>>)),
      Tok(<<101, 114, 114>>, <<48, 48, 48>>,
         RStr(<<48, 48, 48>>)),
      Tok(<<84, 101, 120, 116>>, <<104, 101, 108, 108, 111>>,
         RStr(<<104, 101, 108, 108, 111>>))>>

\* 'id:abc sub:001 dlvrd:002 stat:DELIVRD text:hello world'
TL_spaces ==
    <<Tok(<<105, 100>>, <<97, 98, 99>>,
         RStr(<<97, 98, 99>>)),
      Tok(<<115, 117, 98>>, <<48, 48, 49>>,
         RInt(1)),
      Tok(<<100, 108, 118, 114, 100>>, <<48, 48, 50>>,
         RInt(2)),
      Tok(<<115, 116, 97, 116>>, <<68, 69, 76, 73, 86, 82, 68>>,
         RStr(<<68, 69, 76, 73, 86, 82, 68>>)),
      Tok(<<116, 101, 120, 116>>, <<104, 101, 108, 108, 111, 32, 119, 111, 114, 108, 100>>,
         RStr(<<104, 101, 108, 108, 111, 32, 119, 111, 114, 108, 100>>))>>

\* 'sub:002 dlvrd:001 stat:DELIVRD Text:hi'
TL_noid ==
    <<Tok(<<115, 117, 98>>, <<48, 48, 50>>,
         RInt(2)),
      Tok(<<100, 108, 118, 114, 100>>, <<48, 48, 49>>,
         RInt(1)),
      Tok(<<115, 116, 97, 116>>, <<68, 69, 76, 73, 86, 82, 68>>,
         RStr(<<68, 69, 76, 73, 86, 82, 68>>)),
      Tok(<<84, 101, 120, 116>>, <<104, 105>>,
         RStr(<<104, 105>>))>>

\* 'ID:abc foo:bar STAT:DELIVRD'
TL_unknown ==
    <<Tok(<<73, 68>>, <<97, 98, 99>>,
         RStr(<<97, 98, 99>>)),
      Tok(<<102, 111, 111>>, <<98, 97, 114>>,
         RStr(<<98, 97, 114>>)),
      Tok(<<83, 84, 65, 84>>, <<68, 69, 76, 73, 86, 82, 68>>,
         RStr(<<68, 69, 76, 73, 86, 82, 68>>))>>

\* 'id: sub:001'
TL_emptyid ==
    <<Tok(<<105, 100>>, <<>>,
         RStr(<<>>)),
      Tok(<<115, 117, 98>>, <<48, 48, 49>>,
         RInt(1))>>

ReceiptTokenLists == {TL_full, TL_spaces, TL_noid, TL_unknown, TL_emptyid}

RECURSIVE Render(_)
\* The tokens written as `key:value` and separated by single blanks.
Render(tokens) ==
    IF tokens = <<>> THEN <<>>
    ELSE Head(tokens).key \o <<58>> \o Head(tokens).value
         \o (IF Len(tokens) > 1 THEN <<32>> \o Render(Tail(tokens)) ELSE <<>>)

\* 'id:abc sub:x1': sub is no integer
R_badint == <<105, 100, 58, 97, 98, 99, 32, 115, 117, 98, 58, 120, 49>>

ReceiptTexts == {Render(t) : t \in ReceiptTokenLists} \cup {R_badint}

\* A receipt dict as a caller builds it.
ReceiptDict ==
    DictSet(DictSet(DictSet(DictSet(<<>>, K_id, RStr(<<97, 98, 99>>)), K_sub, RInt(1)),
                    K_stat, RStr(<<68, 69, 76, 73, 86, 82, 68>>)),
            K_submit_date, RDate(NaiveDatetime(2024, 1, 1, 12, 0)))

OptionalParamLists ==
    {<<>>,
     <<OptionalParamInt("USER_MESSAGE_REFERENCE", 515),
       OptionalParamStr("RECEIPTED_MESSAGE_ID", <<109, 55, 55>>)>>,
     <<OptionalParamBool("ALERT_ON_MESSAGE_DELIVERY"),
       OptionalParamInt("SC_INTERFACE_VERSION", 52)>>,
     <<OptionalParamStr("MESSAGE_PAYLOAD", T_hi)>>}

\* The arguments of SubmitSm / DeliverSm, with the defaults of SubmitSm.
SmDefaults ==
    [cls |-> "SubmitSm",
     short_message |-> T_hi,
     source |-> PhoneNumber(<<49>>, 1, 1),
     destination |-> PhoneNumber(<<50>>, 1, 1),
     service_type |-> <<67, 77, 84>>,
     esm_class |-> 3,
     protocol_id |-> 0,
     priority_flag |-> 0,
     schedule_delivery_time |-> TimeNone,
     validity_period |-> TimeNone,
     registered_delivery |-> 1,
     replace_if_present_flag |-> 0,
     encoding |-> "",
     sm_default_msg_id |-> 0,
     message_payload |-> <<>>,
     optional_params |-> <<>>,
     auto_message_payload |-> TRUE,
     error_handling |-> "strict",
     sequence_num |-> 1,
     log_id |-> <<76, 49>>,
     extra_data |-> <<>>,
     receipt |-> NoReceipt]

SmClasses == {"SubmitSm", "DeliverSm"}

\* Texts, encodings and the two ways of carrying the text.
TextArgs ==
    {[SmDefaults EXCEPT !.cls = c, !.short_message = sm, !.message_payload = mp,
                        !.encoding = e, !.auto_message_payload = auto,
                        !.error_handling = eh] :
        c \in SmClasses, sm \in Texts \cup {<<>>}, mp \in {<<>>, T_hi, T_a255},
        e \in Encodings, auto \in BOOLEAN, eh \in {"strict", "replace"}}
    \cup
    {[SmDefaults EXCEPT !.short_message = sm, !.encoding = e, !.error_handling = "ignore"] :
        sm \in {T_latin, T_cjk, T_surrogate}, e \in Encodings}

\* Optional parameters and the two time fields.
ParamArgs ==
    {[SmDefaults EXCEPT !.cls = c, !.short_message = sm, !.optional_params = op,
                        !.schedule_delivery_time = sch, !.validity_period = val,
                        !.encoding = e, !.auto_message_payload = auto] :
        c \in SmClasses, sm \in {T_hi, T_a255}, op \in OptionalParamLists,
        sch \in {TimeNone, datetime(2024, 1, 1, 12, 0, 0, 0, FALSE, 0).t},
        val \in {TimeNone, timedelta(2, 11045, 0), timedelta(442, 0, 0)},
        e \in {"", "latin_1"}, auto \in BOOLEAN}

\* Delivery receipts.
ReceiptArgs ==
    {[SmDefaults EXCEPT !.cls = "DeliverSm", !.short_message = sm, !.message_payload = mp,
                        !.esm_class = esm, !.receipt = r, !.optional_params = op,
                        !.encoding = "latin_1"] :
        sm \in ReceiptTexts \cup {<<>>}, mp \in {<<>>, T_hi}, esm \in {0, 4, 7, 8},
        r \in {NoReceipt, Receipt(<<>>), Receipt(ReceiptDict)},
        op \in {<<>>, <<OptionalParamStr("RECEIPTED_MESSAGE_ID", <<109, 55, 55>>)>>}}

\* Tracking fields, sequence numbers and the other one-octet fields.
TrackingArgs ==
    {[SmDefaults EXCEPT !.cls = c, !.log_id = l, !.extra_data = x, !.sequence_num = n,
                        !.esm_class = esm, !.registered_delivery = rd] :
        c \in SmClasses, l \in {<<>>, <<76, 49>>}, x \in {<<>>, <<120, 49>>},
        n \in 0..MaxSeq, esm \in {0, 3}, rd \in {0, 1}}

\* A text longer than a TLV can carry.
HugeArgs ==
    {[SmDefaults EXCEPT !.short_message = sm, !.message_payload = mp,
                        !.encoding = "latin_1", !.auto_message_payload = auto] :
        sm \in {<<>>, T_huge}, mp \in {<<>>, T_huge}, auto \in BOOLEAN}

SmArgs == TextArgs \cup ParamArgs \cup ReceiptArgs \cup TrackingArgs \cup HugeArgs

\* The arguments of the responses with a message_id.
SmRespArgs ==
    {[cls |-> c, sequence_num |-> n, command_status |-> st, message_id |-> id,
      log_id |-> l, extra_data |-> <<>>] :
        c \in {"SubmitSmResp", "DeliverSmResp"}, n \in 0..MaxSeq,
        st \in SmppCommandStatus, id \in {<<>>, <<97, 98, 99>>}, l \in {<<>>, <<76, 49>>}}

GenericNackArgs ==
    {[cls |-> "GenericNack", sequence_num |-> n, command_status |-> st,
      log_id |-> l, extra_data |-> x] :
        n \in 0..MaxSeq, st \in SmppCommandStatus,
        l \in {<<>>, <<76, 49>>}, x \in {<<>>, <<120, 49>>}}

BindTransceiverArgs ==
    {[cls |-> "BindTransceiver", system_id |-> <<101, 115, 109, 101>>, password |-> pw,
      system_type |-> st, interface_version |-> 52, addr_ton |-> ton, addr_npi |-> npi,
      address_range |-> ar, sequence_num |-> n] :
        pw \in {<<>>, <<112, 119, 49>>, <<112, 119, 50>>}, st \in {<<>>, <<67, 77, 84>>},
        ton \in {0, 1}, npi \in {0, 1}, ar \in {<<>>, <<49>>}, n \in 0..MaxSeq}

BindTransceiverRespArgs ==
    {[cls |-> "BindTransceiverResp", system_id |-> id, sequence_num |-> n,
      command_status |-> st, sc_interface_version |-> v] :
        id \in {<<>>, <<115, 109, 115, 99>>}, n \in 0..MaxSeq, st \in SmppCommandStatus,
        v \in {NoVersion, Version(52), Version(0)}}

RequestArgs ==
    {[cls |-> c, sequence_num |-> n] : c \in {"EnquireLink", "Unbind"}, n \in 0..MaxSeq}

ResponseArgs ==
    {[cls |-> c, sequence_num |-> n, command_status |-> st] :
        c \in {"EnquireLinkResp", "UnbindResp"}, n \in 0..MaxSeq, st \in SmppCommandStatus}

\* The command of each class.
CommandOf ==
    [SubmitSm |-> "SUBMIT_SM", DeliverSm |-> "DELIVER_SM",
     SubmitSmResp |-> "SUBMIT_SM_RESP", DeliverSmResp |-> "DELIVER_SM_RESP",
     GenericNack |-> "GENERIC_NACK", BindTransceiver |-> "BIND_TRANSCEIVER",
     BindTransceiverResp |-> "BIND_TRANSCEIVER_RESP",
     EnquireLink |-> "ENQUIRE_LINK", EnquireLinkResp |-> "ENQUIRE_LINK_RESP",
     Unbind |-> "UNBIND", UnbindResp |-> "UNBIND_RESP"]

(***************************************************************************)
(* The message codec as a state machine: a constructor is called, the      *)
(* session layer sets the encoding info, pdu() encodes the message, and    *)
(* the receiving side parses the header and decodes the PDU.               *)
(***************************************************************************)
NoWire == [err |-> "unset", bytes |-> <<>>]
NoDec == [err |-> "unset", msg |-> NoMsg, default_encoding |-> ""]
NoArgs == [cls |-> "none"]
NoStr == [err |-> "unset", str |-> <<>>]
NoTime == [err |-> "unset", t |-> TimeNone]
NoView == [cmd |-> "none"]
NoHeader == [err |-> "unset"]
NoRx == [kind |-> "none", head |-> <<>>, header |-> NoHeader, pdu |-> <<>>,
         short_message |-> <<>>, tlvs |-> <<>>]
NoLoop == [err |-> "unset"]
NoAgain == [calls |-> 0, err |-> "unset", bytes |-> <<>>]

Init ==
    /\ args \in SmArgs \cup SmRespArgs \cup GenericNackArgs \cup BindTransceiverArgs
                \cup BindTransceiverRespArgs \cup RequestArgs \cup ResponseArgs
    /\ msg = Unset
    /\ wire = NoWire
    /\ dec = NoDec
    /\ tobj = TimeNone
    /\ tstr = NoStr
    /\ tres = NoTime
    /\ view = NoView
    /\ rx = NoRx
    /\ tl = NoLoop
    /\ again = NoAgain

NewSubmitSm ==
    /\ msg = Unset /\ args.cls = "SubmitSm"
    /\ msg' = SubmitSm_init(args)
    /\ UNCHANGED <<args, wire, dec>> /\ UNCHANGED <<tvars, xvars>>

NewDeliverSm ==
    /\ msg = Unset /\ args.cls = "DeliverSm"
    /\ msg' = DeliverSm_init(args)
    /\ UNCHANGED <<args, wire, dec>> /\ UNCHANGED <<tvars, xvars>>

NewSmResp ==
    /\ msg = Unset /\ args.cls \in {"SubmitSmResp", "DeliverSmResp"}
    /\ msg' = SmResp_init(CommandOf[args.cls], args)
    /\ UNCHANGED <<args, wire, dec>> /\ UNCHANGED <<tvars, xvars>>

NewGenericNack ==
    /\ msg = Unset /\ args.cls = "GenericNack"
    /\ msg' = GenericNack_init(args)
    /\ UNCHANGED <<args, wire, dec>> /\ UNCHANGED <<tvars, xvars>>

NewBindTransceiver ==
    /\ msg = Unset /\ args.cls = "BindTransceiver"
    /\ msg' = BindTransceiver_init(args)
    /\ UNCHANGED <<args, wire, dec>> /\ UNCHANGED <<tvars, xvars>>

NewBindTransceiverResp ==
    /\ msg = Unset /\ args.cls = "BindTransceiverResp"
    /\ msg' = BindTransceiverResp_init(args)
    /\ UNCHANGED <<args, wire, dec>> /\ UNCHANGED <<tvars, xvars>>

NewRequest ==
    /\ msg = Unset /\ args.cls \in {"EnquireLink", "Unbind"}
    /\ msg' = Request_init(CommandOf[args.cls], args)
    /\ UNCHANGED <<args, wire, dec>> /\ UNCHANGED <<tvars, xvars>>

NewResponse ==
    /\ msg = Unset /\ args.cls \in {"EnquireLinkResp", "UnbindResp"}
    /\ msg' = Response_init(CommandOf[args.cls], args)
    /\ UNCHANGED <<args, wire, dec>> /\ UNCHANGED <<tvars, xvars>>

\* Sm.set_encoding_info
SetEncodingInfo ==
    /\ msg.err = "none" /\ IsSm(msg.msg)
    /\ msg.msg.default_encoding = "" /\ wire = NoWire
    /\ \E default_encoding \in DefaultEncodings :
           msg' = [msg EXCEPT !.msg.default_encoding = default_encoding]
    /\ UNCHANGED <<args, wire, dec>> /\ UNCHANGED <<tvars, xvars>>

\* The outcome r of msg.pdu(): the PDU or the exception, and the message as
\* the call left it.
Encoded(r) ==
    /\ wire' = [err |-> r.err, bytes |-> r.bytes]
    /\ msg' = [msg EXCEPT !.msg = r.msg]

\* msg.pdu()
Pdu ==
    /\ msg.err = "none" /\ wire = NoWire
    /\ Encoded(message_pdu(msg.msg))
    /\ UNCHANGED <<args, dec>> /\ UNCHANGED <<tvars, xvars>>

\* The outcome r of one more msg.pdu() on the same message.
Repeated(r) ==
    /\ again' = [calls |-> again.calls + 1, err |-> r.err, bytes |-> r.bytes]
    /\ msg' = [msg EXCEPT !.msg = r.msg]

\* msg.pdu() once more, after a call that returned
PduAgain ==
    /\ msg.err = "none" /\ wire.err = "none"
    /\ again.calls < MaxCalls
    /\ again.err \in {"unset", "none"}
    /\ Repeated(message_pdu(msg.msg))
    /\ UNCHANGED <<args, wire, dec>> /\ UNCHANGED <<tvars, view, rx, tl>>

\* MESSAGE_TYPE_MAP[header.smpp_command].from_pdu(pdu, header, default_encoding)
\* for a header that parse_header returned
decode_with(pdu, header, default_encoding) ==
    IF header.err # "none" THEN Raised(header.err)
    ELSE from_pdu(pdu, header, default_encoding)

\* header = parse_header(pdu[:16]), then the dispatch
decode(pdu, default_encoding) ==
    decode_with(pdu, parse_header(SubSeq(pdu, 1, Min(Len(pdu), PDU_HEADER_LENGTH))),
                default_encoding)

Decoded(r, default_encoding) ==
    [err |-> r.err, msg |-> r.msg, default_encoding |-> default_encoding]

FromPdu ==
    /\ wire.err = "none" /\ dec = NoDec
    /\ \E default_encoding \in DefaultEncodings :
           dec' = Decoded(decode(wire.bytes, default_encoding), default_encoding)
    /\ UNCHANGED <<args, msg, wire>> /\ UNCHANGED <<tvars, xvars>>

\* msg.as_dict()
AsDict ==
    /\ msg.err = "none" /\ view = NoView
    /\ view' = as_dict(msg.msg)
    /\ UNCHANGED <<mvars, tvars, rx, tl, again>>

Next ==
    \/ NewSubmitSm \/ NewDeliverSm \/ NewSmResp \/ NewGenericNack
    \/ NewBindTransceiver \/ NewBindTransceiverResp \/ NewRequest \/ NewResponse
    \/ SetEncodingInfo \/ Pdu \/ PduAgain \/ FromPdu \/ AsDict

Spec == Init /\ [][Next]_vars

(***************************************************************************)
(* The receiving side on its own.  The session layer reads 16 octets,      *)
(* parses the header, reads the rest of the PDU and hands both to from_pdu *)
(* of the class the dispatch table names.  The peer sends what it likes:   *)
(* any status, fewer octets than the header declares, optional parameters  *)
(* in any order.                                                           *)
(***************************************************************************)
\* A PDU as a peer builds it: the header and the body.
RxPdu(cmd, status, seq, body) ==
    PackI(PDU_HEADER_LENGTH + Len(body)) \o PackWords(SmppCommand[cmd])
    \o PackI(status) \o PackI(seq) \o body

\* One TLV on the wire: the tag, the length field and the value octets.
Tlv(tag, length, value) == [tag |-> tag, length |-> length, value |-> value]

TlvOctets(t) == PackH(OptionalTag[t.tag].value) \o PackH(t.length) \o t.value

RECURSIVE TlvBlock(_)
TlvBlock(tlvs) == IF tlvs = <<>> THEN <<>> ELSE TlvOctets(Head(tlvs)) \o TlvBlock(Tail(tlvs))

\* message_payload 'hi'
TlvPayload == Tlv("MESSAGE_PAYLOAD", 2, T_hi)
\* user_message_reference 515
TlvReference == Tlv("USER_MESSAGE_REFERENCE", 2, <<2, 3>>)
\* receipted_message_id 'm77', as a C-octet string
TlvReceipted == Tlv("RECEIPTED_MESSAGE_ID", 4, <<109, 55, 55, 0>>)
\* sc_interface_version 0x34
TlvVersion == Tlv("SC_INTERFACE_VERSION", 1, <<52>>)
\* alert_on_message_delivery, zero-length
TlvAlert == Tlv("ALERT_ON_MESSAGE_DELIVERY", 0, <<>>)
\* alert_on_message_delivery with one octet of value
TlvAlertOctet == Tlv("ALERT_ON_MESSAGE_DELIVERY", 1, <<1>>)

\* A TLV is well-formed when its length field is the number of its value
\* octets and fits the declared type of its tag.
TlvWellFormed(t) ==
    /\ t.length = Len(t.value)
    /\ OptionalTag[t.tag].data_type = "int" => t.length = OptionalTag[t.tag].length
    /\ OptionalTag[t.tag].data_type = "bool" => t.length = 0

\* The optional-parameter sections a peer sends.
TlvBlocks ==
    {<<>>, <<TlvPayload>>, <<TlvReference, TlvPayload>>,
     <<TlvAlert, TlvReceipted, TlvPayload, TlvVersion>>,
     <<TlvPayload, TlvAlert, TlvReference>>,
     <<TlvVersion, TlvReceipted, TlvAlert>>,
     <<TlvAlertOctet, TlvReference>>,
     <<TlvReference, TlvAlertOctet>>}

\* The mandatory fields of a submit_sm / deliver_sm body: service_type 'CMT',
\* source ('1', 1, 1), destination ('2', 1, 1), esm_class 0, no times,
\* registered_delivery 1, data_coding 3 (latin_1), and the short_message.
SmMandatory(short_message) ==
    <<67, 77, 84, 0, 1, 1, 49, 0, 1, 1, 50, 0, 0, 0, 0, 0, 0, 1, 0, 3, 0>>
    \o PackB(Len(short_message)) \o short_message

\* The body of a well-formed PDU of each command.
RxBody ==
    [GENERIC_NACK          |-> <<>>,
     SUBMIT_SM             |-> SmMandatory(T_hi),
     SUBMIT_SM_RESP        |-> <<97, 98, 99, 0>>,
     DELIVER_SM            |-> SmMandatory(T_hi) \o TlvOctets(TlvReceipted),
     DELIVER_SM_RESP       |-> <<0>>,
     UNBIND                |-> <<>>,
     UNBIND_RESP           |-> <<>>,
     BIND_TRANSCEIVER      |-> <<101, 115, 109, 101, 0, 112, 119, 49, 0, 67, 77, 84, 0,
                                 52, 1, 1, 49, 0>>,
     BIND_TRANSCEIVER_RESP |-> <<115, 109, 115, 99, 0>> \o TlvOctets(TlvVersion),
     ENQUIRE_LINK          |-> <<>>,
     ENQUIRE_LINK_RESP     |-> <<>>]

\* What follows `system_id\0` in a bind_transceiver_resp: nothing, the
\* sc_interface_version TLV, that TLV with a two-octet value, the first
\* three octets of it, that TLV twice, and that TLV after another one.
BindRespTails ==
    {<<>>, TlvOctets(TlvVersion),
     TlvOctets(Tlv("SC_INTERFACE_VERSION", 2, <<52, 0>>)),
     <<2, 16, 0>>,
     TlvOctets(TlvVersion) \o TlvOctets(TlvVersion),
     TlvOctets(TlvReference) \o TlvOctets(TlvVersion)}

\* What the receiving side is given: the first 16 octets of the PDU `full`
\* to parse the header from, and the PDU less its last `cut` octets.
Rx(kind, full, cut, short_message, tlvs) ==
    [kind |-> kind,
     head |-> SubSeq(full, 1, PDU_HEADER_LENGTH),
     header |-> NoHeader,
     pdu |-> SubSeq(full, 1, Len(full) - cut),
     short_message |-> short_message,
     tlvs |-> tlvs]

\* Every octet of the PDU arrives.
RxWhole ==
    {Rx("whole", RxPdu(cmd, status, seq, RxBody[cmd]), 0, <<>>, <<>>) :
        cmd \in DOMAIN SmppCommand, status \in {ESME_ROK, 8}, seq \in {0, MaxSeq}}

\* The last 1, 2, ... octets of the PDU do not arrive.
RxTruncatedOf(full) == {Rx("truncated", full, cut, <<>>, <<>>) : cut \in 1..Len(full)}

RxTruncated ==
    UNION {RxTruncatedOf(RxPdu(cmd, ESME_ROK, 1, RxBody[cmd])) : cmd \in DOMAIN SmppCommand}

RxBindResp ==
    {Rx("bind_resp", RxPdu("BIND_TRANSCEIVER_RESP", ESME_ROK, 1,
                           <<115, 109, 115, 99, 0>> \o tail), 0, <<>>, <<>>) :
        tail \in BindRespTails}

RxTlvs ==
    {Rx("tlvs", RxPdu(cmd, ESME_ROK, 1, SmMandatory(short_message) \o TlvBlock(tlvs)),
        0, short_message, tlvs) :
        cmd \in {"SUBMIT_SM", "DELIVER_SM"}, short_message \in {<<>>, T_hi},
        tlvs \in TlvBlocks}

RxInputs == RxWhole \cup RxTruncated \cup RxBindResp \cup RxTlvs

\* Sm.from_pdu, the reads from service_type to data_coding.
Sm_data_coding(pdu) ==
    get_integer(pdu, get_integer(pdu, get_integer(pdu,
        get_c_octet_string(pdu, get_c_octet_string(pdu,
            get_integer(pdu, get_integer(pdu, get_integer(pdu,
                get_c_octet_string(pdu,
                    as_enum(get_integer(pdu, as_enum(get_integer(pdu,
                        get_c_octet_string(pdu,
                            as_enum(get_integer(pdu, as_enum(get_integer(pdu,
                                get_c_octet_string(pdu, ReadStart(PDU_HEADER_LENGTH)),
                                1), TON), 1), NPI)),
                        1), TON), 1), NPI)),
                1), 1), 1))),
        1), 1), 1)

\* Sm.from_pdu, the reads of sm_default_msg_id and sm_length.
Sm_sm_length(pdu) == get_integer(pdu, get_integer(pdu, Sm_data_coding(pdu), 1), 1)

\* The state in which Sm.from_pdu enters the loop over the optional
\* parameters, given the reads of data_coding and sm_length: index is past
\* the short_message, nothing is collected yet.
LoopStart(pdu, data_coding, sm_length, encoding) ==
    [err |-> IF sm_length.err # "none" THEN sm_length.err
             ELSE IF encoding = "" THEN "ValueError"
             ELSE IF encoding \notin CodecNames THEN "LookupError"
             ELSE codec_decode(encoding, Slice(pdu, sm_length.index,
                                               sm_length.index + sm_length.int)).err,
     index |-> sm_length.index + sm_length.int,
     message_payload |-> <<>>,
     optional_params |-> <<>>,
     encoding |-> encoding]

Sm_loop_start(pdu, default_encoding) ==
    LoopStart(pdu, Sm_data_coding(pdu), Sm_sm_length(pdu),
              IF Sm_data_coding(pdu).int # 0 THEN DataCodingName(Sm_data_coding(pdu).int)
              ELSE default_encoding)

\* The loop state after one more round.
LoopStep(st, encoding) ==
    [err |-> st.err, index |-> st.index, message_payload |-> st.message_payload,
     optional_params |-> st.optional_params, encoding |-> encoding]

RxInit ==
    /\ args = NoArgs
    /\ msg = Unset
    /\ wire = NoWire
    /\ dec = NoDec
    /\ tobj = TimeNone
    /\ tstr = NoStr
    /\ tres = NoTime
    /\ view = NoView
    /\ rx \in RxInputs
    /\ tl = NoLoop
    /\ again = NoAgain

\* header = SmppMessage.parse_header(the 16 octets read first)
ParseHeader ==
    /\ rx.header = NoHeader
    /\ rx' = [rx EXCEPT !.header = parse_header(rx.head)]
    /\ UNCHANGED <<mvars, tvars, view, tl, again>>

\* MESSAGE_TYPE_MAP[header.smpp_command].from_pdu(pdu, header, default_encoding)
RxFromPdu ==
    /\ rx.header # NoHeader /\ dec = NoDec
    /\ \E default_encoding \in DefaultEncodings :
           dec' = Decoded(decode_with(rx.pdu, rx.header, default_encoding), default_encoding)
    /\ UNCHANGED <<args, msg, wire, tvars, xvars>>

\* Sm.from_pdu of the same PDU, up to the loop over the optional parameters
ReadMandatory ==
    /\ rx.header # NoHeader /\ tl = NoLoop
    /\ rx.header.smpp_command \in {"SUBMIT_SM", "DELIVER_SM"}
    /\ \E default_encoding \in DefaultEncodings :
           tl' = Sm_loop_start(rx.pdu, default_encoding)
    /\ UNCHANGED <<mvars, tvars, view, rx, again>>

\* ... and one round of `while index < header.pdu_length`
ReadOptionalParam ==
    /\ tl # NoLoop /\ tl.err = "none"
    /\ tl.index < rx.header.pdu_length
    /\ tl' = LoopStep(read_optional_param(rx.pdu, tl.encoding, tl), tl.encoding)
    /\ UNCHANGED <<mvars, tvars, view, rx, again>>

RxNext == ParseHeader \/ RxFromPdu \/ ReadMandatory \/ ReadOptionalParam

SpecRx == RxInit /\ [][RxNext]_vars

(***************************************************************************)
(* Properties of the message codec.                                        *)
(***************************************************************************)
\* pdu() has been called on an Sm (SubmitSm or DeliverSm).
SmPduCalled == msg.err = "none" /\ IsSm(msg.msg) /\ wire.err # "unset"

\* The text pdu() encodes: self.short_message or self.message_payload
TextOf(m) == IF m.short_message # <<>> THEN m.short_message ELSE m.message_payload

\* The codec that served the call, read from the message after the call:
\* its encoding when one is set or was pinned, the default encoding otherwise.
CodecUsed(m) == IF m.encoding # "" THEN m.encoding ELSE m.default_encoding

\* The encoded text, by the codec that served the call.
EncodedText(m) == codec_encode(CodecUsed(m), TextOf(m), m.error_handling)

\* Position (from 0) of the sm_length octet in the PDU of m; data_coding is
\* two octets before it.
SmLengthIndex(m) ==
    PDU_HEADER_LENGTH + Len(m.service_type) + 1
    + 2 + Len(m.source.number) + 1
    + 2 + Len(m.destination.number) + 1
    + 3
    + Len(datetime_to_smpp_time(m.schedule_delivery_time).str) + 1
    + Len(datetime_to_smpp_time(m.validity_period).str) + 1
    + 4

DataCodingIndex(m) == SmLengthIndex(m) - 2

\* Everything after the sm_length octet.
AfterSmLength(m, bytes) == Slice(bytes, SmLengthIndex(m) + 1, Len(bytes))

\* The fields that do not travel on the wire, and the encoding.
NotCompared == {"log_id", "extra_data", "auto_message_payload", "error_handling",
                "encoding", "default_encoding"}

Compared(m) == [f \in (DOMAIN m) \ NotCompared |-> m[f]]

\* C1: every message that pdu() encoded decodes, through parse_header and the
\* dispatch table, without error to a message equal to it on every field but
\* log_id, extra_data, auto_message_payload, error_handling and an
\* auto-selected encoding.  (An Sm that left the encoding to the default is
\* decoded with the default encoding it was encoded with.)
C1_RoundTrip ==
    (/\ dec.err # "unset"
     /\ (IsSm(msg.msg) /\ args.encoding = "")
            => dec.default_encoding = msg.msg.default_encoding)
    => /\ dec.err = "none"
       /\ Compared(dec.msg) = Compared(msg.msg)
       /\ (IsSm(msg.msg) /\ args.encoding # "") => dec.msg.encoding = args.encoding

\* C2: the big-endian u32 in the first four octets of every PDU that pdu()
\* returned is the length of that PDU.
C2_HeaderLength ==
    wire.err = "none"
    => /\ Len(wire.bytes) >= PDU_HEADER_LENGTH
       /\ UnpackAt(wire.bytes, 0, 4) = Len(wire.bytes)

\* An Sm whose text was moved to a MESSAGE_PAYLOAD TLV, with other optional
\* params after it, was encoded.
C2_Witness ==
    /\ SmPduCalled /\ wire.err = "none"
    /\ msg.msg.short_message = T_a255
    /\ msg.msg.optional_params # <<>>
    /\ wire.bytes[SmLengthIndex(msg.msg) + 1] = 0
    /\ UnpackAt(wire.bytes, 0, 4) = Len(wire.bytes)

ExactlyOneText(m) == (m.short_message # <<>>) # (m.message_payload # <<>>)

\* C3: every SubmitSm or DeliverSm that a constructor returned, to a user or
\* to from_pdu, has exactly one of short_message and message_payload
\* non-empty, and arguments with both empty or both non-empty yield no object.
C3_ExactlyOneText ==
    /\ (msg.err = "none" /\ IsSm(msg.msg)) => ExactlyOneText(msg.msg)
    /\ (dec.err = "none" /\ IsSm(dec.msg)) => ExactlyOneText(dec.msg)
    /\ (/\ msg.err # "unset" /\ args.cls \in SmClasses
        /\ (args.short_message = <<>>) = (args.message_payload = <<>>))
       => msg.err # "none"

\* C4: for an Sm with a non-empty short_message and auto_message_payload,
\* whose text encodes and whose other fields pack, pdu() returns a PDU with
\* the text inline (sm_length = number of encoded octets, the optional params
\* right after the text) when the encoded text has at most 254 octets, and
\* otherwise with sm_length = 0 and, right after it, one MESSAGE_PAYLOAD TLV
\* (tag 0x0424, length = number of encoded octets, value = the encoded text)
\* before the other optional params.
C4_AutoPayloadPromotion ==
    (/\ SmPduCalled
     /\ msg.msg.short_message # <<>> /\ msg.msg.auto_message_payload
     /\ EncodedText(msg.msg).err = "none"
     /\ wire.err # ValidityTooLong)
    => /\ wire.err = "none"
       /\ IF Len(EncodedText(msg.msg).bytes) <= 254
          THEN /\ wire.bytes[SmLengthIndex(msg.msg) + 1] = Len(EncodedText(msg.msg).bytes)
               /\ AfterSmLength(msg.msg, wire.bytes)
                    = EncodedText(msg.msg).bytes \o JoinTlv(msg.msg.optional_params)
          ELSE /\ wire.bytes[SmLengthIndex(msg.msg) + 1] = 0
               /\ AfterSmLength(msg.msg, wire.bytes)
                    = PackH(OptionalTag.MESSAGE_PAYLOAD.value)
                      \o PackH(Len(EncodedText(msg.msg).bytes))
                      \o EncodedText(msg.msg).bytes
                      \o JoinTlv(msg.msg.optional_params)

\* C5: pdu() of an Sm raises the too-long error exactly when short_message is
\* non-empty, its encoded length is above 254 octets and auto_message_payload
\* is false; no PDU is returned then.
C5_TooLongExactly ==
    SmPduCalled
    => /\ (wire.err = TooLong)
          = (/\ msg.msg.short_message # <<>>
             /\ EncodedText(msg.msg).err = "none"
             /\ Len(EncodedText(msg.msg).bytes) > 254
             /\ ~msg.msg.auto_message_payload)
       /\ wire.err = TooLong => wire.bytes = <<>>

\* The too-long error was raised, and a message_payload above 254 octets was
\* encoded with auto_message_payload false.
C5_Witness ==
    /\ SmPduCalled
    /\ \/ wire.err = TooLong /\ msg.msg.short_message = T_cjk128
       \/ /\ wire.err = "none" /\ msg.msg.message_payload = T_a255
          /\ ~msg.msg.auto_message_payload

\* The octets of the text in the PDU of m: inline, or the value of a
\* MESSAGE_PAYLOAD TLV right after sm_length, or none.
WireText(m, bytes) ==
    IF bytes[SmLengthIndex(m) + 1] # 0
    THEN Slice(bytes, SmLengthIndex(m) + 1, SmLengthIndex(m) + 1 + bytes[SmLengthIndex(m) + 1])
    ELSE IF /\ Len(bytes) >= SmLengthIndex(m) + 5
            /\ UnpackAt(bytes, SmLengthIndex(m) + 1, 2) = OptionalTag.MESSAGE_PAYLOAD.value
    THEN Slice(bytes, SmLengthIndex(m) + 5,
               SmLengthIndex(m) + 5 + UnpackAt(bytes, SmLengthIndex(m) + 3, 2))
    ELSE <<>>

\* What codec_encode says of the text of m under codec `name`.
Attempt(m, name) == codec_encode(name, TextOf(m), m.error_handling)

\* C6: with encoding unset, pdu() encodes with the default encoding; when
\* that works the encoding stays unset and the data_coding octet is 0; when
\* it raises an encoding failure the text is encoded with ucs2, encoding
\* becomes 'ucs2' and the data_coding octet of that PDU is
\* SmppDataCoding['ucs2'] (a failure of ucs2 too is raised).  With an
\* encoding set, that codec alone is tried and its failure is raised.
C6_AutoEncoding ==
    SmPduCalled
    => IF args.encoding = ""
       THEN /\ Attempt(msg.msg, msg.msg.default_encoding).err = "none"
               => /\ msg.msg.encoding = ""
                  /\ wire.err = "none"
                     => /\ wire.bytes[DataCodingIndex(msg.msg) + 1] = 0
                        /\ WireText(msg.msg, wire.bytes)
                             = Attempt(msg.msg, msg.msg.default_encoding).bytes
            /\ (/\ Attempt(msg.msg, msg.msg.default_encoding).err = "UnicodeEncodeError"
                /\ Attempt(msg.msg, "ucs2").err = "none")
               => /\ msg.msg.encoding = "ucs2"
                  /\ wire.err = "none"
                     => /\ wire.bytes[DataCodingIndex(msg.msg) + 1] = SmppDataCoding.ucs2
                        /\ WireText(msg.msg, wire.bytes) = Attempt(msg.msg, "ucs2").bytes
            /\ (/\ Attempt(msg.msg, msg.msg.default_encoding).err = "UnicodeEncodeError"
                /\ Attempt(msg.msg, "ucs2").err # "none")
               => wire.err = Attempt(msg.msg, "ucs2").err
       ELSE /\ msg.msg.encoding = args.encoding
            /\ Attempt(msg.msg, args.encoding).err # "none"
               => wire.err = Attempt(msg.msg, args.encoding).err
            /\ wire.err = "none"
               => /\ wire.bytes[DataCodingIndex(msg.msg) + 1] = SmppDataCoding[args.encoding]
                  /\ WireText(msg.msg, wire.bytes) = Attempt(msg.msg, args.encoding).bytes

\* The default encoding failed on the text, ucs2 took over and the PDU says so.
C6_Witness ==
    /\ SmPduCalled /\ wire.err = "none"
    /\ args.encoding = "" /\ msg.msg.encoding = "ucs2"
    /\ msg.msg.default_encoding = "latin_1"
    /\ msg.msg.short_message = T_cjk
    /\ wire.bytes[DataCodingIndex(msg.msg) + 1] = 8

RECURSIVE MapOf(_, _)
\* The receipt that a list of tokens stands for: each key lower-cased and
\* bound to its value, a later token replacing an earlier one of its key.
MapOf(tokens, data) ==
    IF tokens = <<>> THEN data
    ELSE MapOf(Tail(tokens), DictSet(data, Lower(Head(tokens).key), Head(tokens).typed))

\* from_pdu returned a DeliverSm whose short_message is the text of `tokens`.
DecodedReceiptText(tokens) ==
    /\ dec.err = "none" /\ dec.msg.cmd = "DELIVER_SM"
    /\ dec.msg.short_message = Render(tokens)

MessageClass(esm_class) == (esm_class \div 4) % 16

\* The id a RECEIPTED_MESSAGE_ID param gives a receipt that has none.
WithReceiptedId(data, optional_params) ==
    IF (K_id \notin DOMAIN data \/ data[K_id].s = <<>>)
       /\ \E i \in 1..Len(optional_params) : optional_params[i].tag = "RECEIPTED_MESSAGE_ID"
    THEN DictSet(data, K_id,
                 RStr(optional_params[CHOOSE i \in 1..Len(optional_params) :
                          /\ optional_params[i].tag = "RECEIPTED_MESSAGE_ID"
                          /\ \A j \in 1..(i - 1) :
                                 optional_params[j].tag # "RECEIPTED_MESSAGE_ID"].str))
    ELSE data

\* C10 as stated: the receipt of a decoded DeliverSm of message class 1 is
\* the map of the key:value tokens of its short_message, and a DeliverSm of
\* another message class has no receipt.
C10_ReceiptIsTokenMap ==
    /\ \A tokens \in ReceiptTokenLists :
           (DecodedReceiptText(tokens) /\ MessageClass(dec.msg.esm_class) = 1)
           => dec.msg.receipt = Receipt(MapOf(tokens, <<>>))
    /\ (dec.err = "none" /\ dec.msg.cmd = "DELIVER_SM"
        /\ MessageClass(dec.msg.esm_class) # 1)
       => dec.msg.receipt = NoReceipt

\* C10: the receipt of a decoded DeliverSm of message class 1 is the map of
\* the key:value tokens of its short_message (keys lower-cased, sub and dlvrd
\* integers, the two dates datetimes, text taking the rest of the string,
\* unknown keys kept as strings), with id taken from the
\* RECEIPTED_MESSAGE_ID param when the text gives no id or an empty one; a
\* DeliverSm of another message class has no receipt.
C10_ReceiptParse ==
    /\ \A tokens \in ReceiptTokenLists :
           (DecodedReceiptText(tokens) /\ MessageClass(dec.msg.esm_class) = 1)
           => dec.msg.receipt
                = Receipt(WithReceiptedId(MapOf(tokens, <<>>), dec.msg.optional_params))
    /\ (dec.err = "none" /\ dec.msg.cmd = "DELIVER_SM"
        /\ MessageClass(dec.msg.esm_class) # 1)
       => dec.msg.receipt = NoReceipt

\* A receipt whose text ends in `text:hello world` was decoded.
C10_Witness ==
    /\ DecodedReceiptText(TL_spaces)
    /\ MessageClass(dec.msg.esm_class) = 1
    /\ dec.msg.receipt.present
    /\ dec.msg.receipt.data[K_text] = RStr(<<104, 101, 108, 108, 111, 32, 119, 111, 114, 108, 100>>)
    /\ dec.msg.receipt.data[K_dlvrd] = RInt(2)

\* C11: constructing a DeliverSm with a non-empty receipt and an empty
\* short_message succeeds; the message has esm_class 0b00000100 and the
\* receipt rendered by the template as its short_message, and pdu() of it
\* carries that text.
C11_ReceiptEncode ==
    (/\ args.cls = "DeliverSm" /\ msg # Unset
     /\ ReceiptTruthy(args.receipt) /\ args.short_message = <<>>)
    => /\ msg.err = "none"
       /\ msg.msg.esm_class = 4
       /\ msg.msg.short_message = receipt_text(args.receipt.data)
       /\ wire.err = "none"
              => WireText(msg.msg, wire.bytes)
                     = codec_encode(CodecUsed(msg.msg), receipt_text(args.receipt.data),
                                    msg.msg.error_handling).bytes

(***************************************************************************)
(* Properties of the receiving side, checked under SpecRx.                 *)
(***************************************************************************)
\* from_pdu was called on a whole PDU of command cmd.
RxDecoded(cmd) ==
    /\ dec # NoDec /\ rx.header # NoHeader
    /\ rx.header.smpp_command = cmd
    /\ Len(rx.pdu) = rx.header.pdu_length

\* Index of the first octet after the system_id terminator of a
\* bind_transceiver_resp.
AfterSystemId(pdu) == Find(pdu, 0, PDU_HEADER_LENGTH) + 1

\* The sc_interface_version of the decoded message is the octet at `index`.
VersionIsOctetAt(index) ==
    /\ dec.err = "none"
    /\ dec.msg.sc_interface_version = Version(rx.pdu[index + 1])

VersionIsNone == dec.err = "none" /\ dec.msg.sc_interface_version = NoVersion

\* C12 as stated: whenever octets remain after the system_id terminator,
\* from_pdu skips four of them and sc_interface_version is the next one;
\* when none remain it is None.  (Fewer than five remaining octets leave no
\* next octet to read and are left open.)
C12_VersionWhenOctetsRemain ==
    RxDecoded("BIND_TRANSCEIVER_RESP")
    => /\ AfterSystemId(rx.pdu) + 5 <= rx.header.pdu_length
              => VersionIsOctetAt(AfterSystemId(rx.pdu) + 4)
       /\ AfterSystemId(rx.pdu) = rx.header.pdu_length => VersionIsNone

\* C12, amended: when exactly five octets remain after the system_id
\* terminator, from_pdu skips four of them and sc_interface_version is the
\* fifth; when none remain, or a number other than five, it is None.
C12_VersionWhenFiveRemain ==
    RxDecoded("BIND_TRANSCEIVER_RESP")
    => IF AfterSystemId(rx.pdu) + 5 = rx.header.pdu_length
       THEN VersionIsOctetAt(AfterSystemId(rx.pdu) + 4)
       ELSE VersionIsNone

\* The tail 0x0210 0x0001 0x34 was decoded to 0x34.
C12_Witness ==
    /\ RxDecoded("BIND_TRANSCEIVER_RESP")
    /\ Slice(rx.pdu, AfterSystemId(rx.pdu), Len(rx.pdu)) = <<2, 16, 0, 1, 52>>
    /\ dec.msg.sc_interface_version = Version(52)

(***************************************************************************)
(* Properties of the message codec, continued (checked under Spec).        *)
(***************************************************************************)
\* The passwords a BindTransceiver is built with.
Passwords == {<<>>, <<112, 119, 49>>, <<112, 119, 50>>}

\* C13: as_dict() of a BindTransceiver maps 'password' to '{REDACTED}', and
\* the projection does not depend on the password: the same message with
\* any other password has the same projection.
C13_Redaction ==
    (view # NoView /\ msg.msg.cmd = "BIND_TRANSCEIVER")
    => /\ view.password = REDACTED
       /\ \A pw \in Passwords : as_dict([msg.msg EXCEPT !.password = pw]) = view

\* as_dict() was called on a BindTransceiver with password 'pw1'.
C13_Witness ==
    /\ view # NoView /\ msg.msg.cmd = "BIND_TRANSCEIVER"
    /\ msg.msg.password = <<112, 119, 49>>
    /\ view.password = REDACTED /\ view.system_id = msg.msg.system_id

\* Values of the tracking fields log_id and extra_data.
LogIds == {<<76, 49>>, <<76, 50>>}
ExtraDatas == {<<>>, <<120, 49>>, <<120, 50>>}

\* The classes that carry log_id and extra_data.
Tracked == {"SUBMIT_SM", "DELIVER_SM", "SUBMIT_SM_RESP", "GENERIC_NACK"}

\* C14: log_id and extra_data are never serialized: whenever pdu() is called
\* on a SubmitSm, DeliverSm, SubmitSmResp or GenericNack, the same message
\* with any other log_id and extra_data gives the same result, octet for
\* octet.
C14_TrackingNotSerialized ==
    [][(Pdu /\ msg.msg.cmd \in Tracked)
       => \A l \in LogIds, x \in ExtraDatas :
              LET other == message_pdu([msg.msg EXCEPT !.log_id = l, !.extra_data = x])
              IN  other.err = wire'.err /\ other.bytes = wire'.bytes]_vars

\* pdu() returned the octets of a SubmitSm that has a log_id and extra_data.
C14_Witness ==
    /\ msg.err = "none" /\ msg.msg.cmd = "SUBMIT_SM"
    /\ msg.msg.log_id = <<76, 49>> /\ msg.msg.extra_data = <<120, 49>>
    /\ wire # NoWire /\ wire.err = "none" /\ Len(wire.bytes) > PDU_HEADER_LENGTH

(***************************************************************************)
(* Properties of the receiving side, continued (checked under SpecRx).     *)
(***************************************************************************)
\* from_pdu was called with fewer octets than the header declares.
RxShort ==
    /\ dec # NoDec /\ rx.header # NoHeader /\ rx.header.err = "none"
    /\ Len(rx.pdu) < rx.header.pdu_length

\* C15: truncated input is an error: from_pdu with a buffer shorter than
\* header.pdu_length raises and returns no message, for every message type.
C15_TruncatedRaises == RxShort => dec.err # "none"

\* The optional-parameter section of the received PDU is well-formed.
RxWellFormedTlvs ==
    /\ rx.kind = "tlvs" /\ rx.header # NoHeader
    /\ \A i \in 1..Len(rx.tlvs) : TlvWellFormed(rx.tlvs[i])

\* The text of a string TLV: its octets without the NULL terminator.
TlvText(value) ==
    IF value # <<>> /\ value[Len(value)] = 0
    THEN SubSeq(value, 1, Len(value) - 1) ELSE value

\* The value of a TLV, typed by the declared type of its tag.
TypedParam(t) ==
    IF OptionalTag[t.tag].data_type = "int"
    THEN OptionalParamInt(t.tag, UnpackAt(t.value, 0, t.length))
    ELSE IF OptionalTag[t.tag].data_type = "bool" THEN OptionalParamBool(t.tag)
    ELSE OptionalParamStr(t.tag, TlvText(t.value))

NotPayload(t) == t.tag # "MESSAGE_PAYLOAD"

\* The TLVs other than MESSAGE_PAYLOAD, in wire order, typed.
TypedParams(tlvs) ==
    LET others == SelectSeq(tlvs, NotPayload)
    IN  [i \in 1..Len(others) |-> TypedParam(others[i])]

\* The text of the MESSAGE_PAYLOAD TLV, '' when there is none.
PayloadText(tlvs) ==
    LET payloads == SelectSeq(tlvs, LAMBDA t : ~NotPayload(t))
    IN  IF payloads = <<>> THEN <<>> ELSE payloads[Len(payloads)].value

\* The loop over the optional parameters has ended without an error.
LoopDone == tl # NoLoop /\ tl.err = "none" /\ tl.index >= rx.header.pdu_length

\* C16: for a PDU with well-formed TLVs in any order, from_pdu returns a
\* message whose message_payload is the MESSAGE_PAYLOAD value and whose
\* optional_params are exactly the other TLVs in wire order, typed; the loop
\* ends with the read index equal to pdu_length.
C16_TlvBlockDecoded ==
    /\ (RxWellFormedTlvs /\ dec # NoDec)
       => /\ dec.err = "none"
          /\ dec.msg.message_payload = PayloadText(rx.tlvs)
          /\ dec.msg.optional_params = TypedParams(rx.tlvs)
    /\ (RxWellFormedTlvs /\ tl # NoLoop /\ ~ENABLED ReadOptionalParam)
       => /\ tl.err = "none"
          /\ tl.index = rx.header.pdu_length

\* The request types of the dispatch table.
RequestCommands == {"SUBMIT_SM", "DELIVER_SM", "BIND_TRANSCEIVER", "ENQUIRE_LINK", "UNBIND"}

\* from_pdu was called on a well-formed PDU of one of the eleven commands.
RxDispatched == rx.kind = "whole" /\ dec # NoDec /\ rx.header # NoHeader

\* C17: MESSAGE_TYPE_MAP[id].from_pdu of a well-formed PDU returns a message
\* of command id with the header's sequence_num; a response or GenericNack
\* has the header's command_status, a request always ESME_ROK.
C17_Dispatch ==
    RxDispatched
    => /\ dec.err = "none"
       /\ dec.msg.cmd = rx.header.smpp_command
       /\ dec.msg.sequence_num = rx.header.sequence_num
       /\ dec.msg.command_status
              = (IF rx.header.smpp_command \in RequestCommands
                 THEN ESME_ROK ELSE rx.header.command_status)

(***************************************************************************)
(* Properties of the message codec: the DeliverSm round trip (Spec).       *)
(***************************************************************************)
\* The fields a DeliverSm text round trip is to keep.
TextRoundTripFields ==
    {"short_message", "message_payload", "source", "destination", "service_type",
     "esm_class", "protocol_id", "priority_flag", "registered_delivery",
     "replace_if_present_flag", "encoding", "sm_default_msg_id", "optional_params"}

\* A DeliverSm with an explicit encoding, no receipt, message class 0 and no
\* time fields was encoded by pdu() and the PDU decoded by from_pdu.
DeliverSmTextDecoded ==
    /\ args # NoArgs /\ args.cls = "DeliverSm" /\ msg.err = "none"
    /\ args.encoding # "" /\ ~ReceiptTruthy(args.receipt)
    /\ MessageClass(args.esm_class) = 0
    /\ args.schedule_delivery_time = TimeNone /\ args.validity_period = TimeNone
    /\ wire.err = "none" /\ dec # NoDec

\* C18: DeliverSm.from_pdu(m.pdu(), header) of such a DeliverSm returns a
\* message with the same text, addresses, one-octet fields, encoding and
\* optional_params as m, also when the encoded short_message is longer than
\* 254 octets and auto_message_payload is true.
C18_DeliverSmTextRoundTrip ==
    DeliverSmTextDecoded
    => /\ dec.err = "none"
       /\ \A f \in TextRoundTripFields : dec.msg[f] = msg.msg[f]

(***************************************************************************)
(* The steps of the optional-parameter loop (checked under SpecRx).        *)
(***************************************************************************)
\* The length field of the TLV at the read index.
DeclaredLength == UnpackAt(rx.pdu, tl.index + 2, 2)

\* C19: every TLV the loop of Sm.from_pdu reads advances the read index by
\* exactly 4 + its declared length, whatever the declared type of its tag.
C19_TlvAdvance ==
    [][(ReadOptionalParam /\ tl'.err = "none")
       => tl'.index = tl.index + 4 + DeclaredLength]_vars

(***************************************************************************)
(* A failed pdu() (checked under Spec).                                    *)
(***************************************************************************)
\* C20: a failed Sm.pdu() leaves the message unchanged: whenever pdu() of a
\* SubmitSm or DeliverSm raises, every field of the message, encoding
\* included, has the value it had before the call.
C20_FailedPduKeepsMessage ==
    [][(Pdu /\ IsSm(msg.msg) /\ wire'.err # "none") => msg' = msg]_vars

(***************************************************************************)
(* Repeated pdu() calls (checked under Spec).                              *)
(***************************************************************************)
\* pdu() returned, and was called again on the same Sm.
SmPduRepeated == msg.err = "none" /\ IsSm(msg.msg) /\ wire.err = "none" /\ again.calls > 0

\* C21: Sm.pdu() is repeatable: once pdu() has succeeded on an Sm, every
\* further pdu() call with the same encoding info succeeds and returns the
\* same octets, also when the first call fell back to ucs2 and pinned
\* the encoding.
C21_PduRepeatable ==
    SmPduRepeated => (again.err = "none" /\ again.bytes = wire.bytes)

\* The first pdu() of a SubmitSm with no encoding fell back to ucs2 and
\* pinned it; MaxCalls further calls returned the same PDU.
C21_Witness ==
    /\ SmPduRepeated /\ again.calls = MaxCalls
    /\ args.encoding = "" /\ msg.msg.encoding = "ucs2"
    /\ again.err = "none" /\ again.bytes = wire.bytes
    /\ Len(wire.bytes) > PDU_HEADER_LENGTH

(***************************************************************************)
(* The time codec as a state machine: a time object is formatted, and the  *)
(* string it gave is parsed back.                                          *)
(***************************************************************************)

Years == {1999, 2024}
Months == {1, 12}
Days == {1, 31}
Hours == {0, 23}
Minutes == {0, 59}
Seconds == {0, 59}
Microseconds == {0, 100000, 900000, 999999}
\* UTC offsets in seconds: none, whole quarter-hours of both signs, and one
\* that is no multiple of 15 minutes.
UtcOffsets == {0, 900, 3600, 19800, 85500, -900, -3600, -19800, -85500, 1020}

Datetimes ==
    {[kind |-> "datetime", year |-> y, month |-> mo, day |-> d, hour |-> h,
      minute |-> mi, second |-> s, microsecond |-> us, aware |-> FALSE, utcoffset |-> 0] :
        y \in Years, mo \in Months, d \in Days, h \in Hours, mi \in Minutes,
        s \in Seconds, us \in Microseconds}
    \cup
    {[kind |-> "datetime", year |-> 2024, month |-> 1, day |-> d, hour |-> h,
      minute |-> 30, second |-> 5, microsecond |-> us, aware |-> TRUE, utcoffset |-> off] :
        d \in Days, h \in Hours, us \in Microseconds, off \in UtcOffsets}

DeltaSeconds == {0, 5, 11045, 86399}
DeltaMicroseconds == {0, 1}

Timedeltas ==
    {timedelta(d, s, us) : d \in 0..MaxDays, s \in DeltaSeconds, us \in DeltaMicroseconds}

TimeObjects == Datetimes \cup Timedeltas \cup {TimeNone}

\* The caller's time object is any of TimeObjects; nothing is formatted yet.
TimeInit ==
    /\ args = NoArgs
    /\ msg = Unset
    /\ wire = NoWire
    /\ dec = NoDec
    /\ tobj \in TimeObjects
    /\ tstr = NoStr
    /\ tres = NoTime
    /\ view = NoView
    /\ rx = NoRx
    /\ tl = NoLoop
    /\ again = NoAgain

FormatTime ==
    /\ tstr = NoStr
    /\ tstr' = datetime_to_smpp_time(tobj)
    /\ UNCHANGED <<tobj, tres>>
    /\ UNCHANGED <<mvars, xvars>>

ParseTime ==
    /\ tstr.err = "none"
    /\ tres = NoTime
    /\ tres' = smpp_time_to_datetime(tstr.str)
    /\ UNCHANGED <<tobj, tstr>>
    /\ UNCHANGED <<mvars, xvars>>

TimeNext == FormatTime \/ ParseTime

SpecTime == TimeInit /\ [][TimeNext]_vars

(***************************************************************************)
(* Claims about the time codec, checked under SpecTime.                    *)
(***************************************************************************)
\* Two datetimes agree on year, month, day, hour, minute, second, tenth of
\* a second and UTC offset (an absent offset counts as zero).
SameDatetime(a, b) ==
    /\ a.kind = "datetime" /\ b.kind = "datetime"
    /\ a.year = b.year /\ a.month = b.month /\ a.day = b.day
    /\ a.hour = b.hour /\ a.minute = b.minute /\ a.second = b.second
    /\ a.microsecond \div 100000 = b.microsecond \div 100000
    /\ a.utcoffset = b.utcoffset

\* C7: time symmetry, absolute.  For every datetime x whose sub-second part
\* is a whole number of tenths and whose UTC offset is absent or a multiple
\* of 15 minutes, smpp_time_to_datetime(datetime_to_smpp_time(x)) returns
\* without error a datetime equal to x.
C7_AbsoluteTimeSymmetry ==
    (/\ tobj.kind = "datetime"
     /\ tobj.microsecond % 100000 = 0
     /\ tobj.utcoffset % 900 = 0
     /\ tres # NoTime)
    => (tres.err = "none" /\ SameDatetime(tres.t, tobj))

\* C8: time symmetry, relative.  A duration d of whole seconds, 0 <= d <=
\* 63 weeks, is formatted as 16 characters ending in '000R' whose six
\* two-digit fields are the 365-day-year / 30-day-month decomposition of d
\* (2 days 3 h 4 min 5 s gives '000002030405000R'), and parsing that string
\* returns exactly d; a duration above 63 weeks is rejected with an error.
C8_RelativeTimeSymmetry ==
    /\ (tobj.kind = "timedelta" /\ tstr # NoStr /\ TdGreater(tobj, timedelta(441, 0, 0)))
       => (tstr.err = "ValueError" /\ tstr.str = <<>>)
    /\ (/\ tobj.kind = "timedelta" /\ tstr # NoStr
        /\ tobj.microseconds = 0 /\ ~TdGreater(tobj, timedelta(441, 0, 0)))
       => /\ tstr.err = "none"
          /\ Len(tstr.str) = 16
          /\ SubSeq(tstr.str, 13, 16) = <<48, 48, 48, 82>>
          /\ \A i \in 1..12 : IsDigit(tstr.str[i])
          /\ LET y == TwoDigits(tstr.str, 0)
                 mo == TwoDigits(tstr.str, 2)
                 d == TwoDigits(tstr.str, 4)
                 h == TwoDigits(tstr.str, 6)
                 mi == TwoDigits(tstr.str, 8)
                 s == TwoDigits(tstr.str, 10)
             IN  /\ y * 365 + mo * 30 + d = tobj.days
                 /\ mo * 30 + d < 365 /\ d < 30
                 /\ h * 3600 + mi * 60 + s = tobj.seconds
                 /\ mi < 60 /\ s < 60
          /\ (tobj.days = 2 /\ tobj.seconds = 11045)
             => tstr.str = <<48, 48, 48, 48, 48, 50, 48, 51, 48, 52, 48, 53, 48, 48, 48, 82>>
          /\ tres # NoTime => (tres.err = "none" /\ tres.t = tobj)

\* C8 witness: the duration of 2 days 3 h 4 min 5 s was formatted and
\* parsed back.
C8_Witness ==
    /\ tobj = timedelta(2, 11045, 0)
    /\ tstr.err = "none"
    /\ tres.err = "none" /\ tres.t.kind = "timedelta"

\* C9: absolute time format.  For every datetime with a UTC offset of o
\* seconds, |o| < 24 h, the last three characters of datetime_to_smpp_time
\* are the two digits of floor(|o| / 900) followed by '+' when o >= 0 and
\* '-' when o < 0; a datetime with no timezone ends in '00+'.
C9_AbsoluteOffsetFormat ==
    (tobj.kind = "datetime" /\ tstr # NoStr)
    => LET o == IF tobj.aware THEN tobj.utcoffset ELSE 0
           q == (IF o < 0 THEN 0 - o ELSE o) \div 900
           n == Len(tstr.str)
       IN  /\ tstr.err = "none"
           /\ n >= 3
           /\ SubSeq(tstr.str, n - 2, n)
              = <<48 + (q \div 10), 48 + (q % 10), IF o < 0 THEN 45 ELSE 43>>

====
